---- MODULE Spec2Model ----
(***************************************************************************)
(* A model of the WebAssembly back end of chibicc (src/codegen_wasm.c).    *)
(*                                                                         *)
(* Conventions.                                                            *)
(*  - A C pointer is a sequence of length at most one: <<>> is NULL and    *)
(*    <<x>> points to x.  A list linked through `next` is a sequence.      *)
(*  - A Node's `var` is a reference (name, is_local) to an Obj; the fields *)
(*    the generator reads through it (offset, ty) are looked up in the     *)
(*    Obj lists the layout pass has written.                               *)
(*  - The output stream is a sequence of chunks.  println(fmt, ...) at     *)
(*    indent level i is the chunk [ind |-> i, fmt, n, s, nl |-> TRUE],     *)
(*    where n and s are the integer and string arguments of the format;    *)
(*    fprintf(output_file, fmt, ...) is a chunk with nl |-> FALSE.         *)
(*  - error_tok terminates the process: everything after its chunk is cut  *)
(*    from the output (UntilFatal).                                        *)
(***************************************************************************)
EXTENDS Integers, Sequences, FiniteSets, TLC

VARIABLES
  prog,              \* the Obj list handed to codegen_wasm (offsets are written by layout)
  out,               \* output_file: chunks written by the latest run
  out1,              \* the output of the first run, kept for comparison
  indent_level,      \* static int indent_level
  wasm_label_count,  \* static int wasm_label_count
  current_fn,        \* static Obj *current_fn (name of the function, "" before any)
  pc,                \* position of the driver
  subject,           \* node-level runs: the node handed to gen_expr / gen_stmt
  vcode,             \* validator / machine: decoded instruction sequence
  vip,               \* index of the next instruction
  vstack,            \* operand stack (types for the validator, values for the machine)
  vctl,              \* control stack of open block / loop / if frames
  verr,              \* "" or the first error found
  mem,               \* machine: linear memory, word address -> value
  glob_sp,           \* machine: the global $__sp
  locs,              \* machine: the running function, its locals and parameters
  frames,            \* machine: suspended callers
  trace,             \* validator: operand type mismatches; machine: one record per function exit
  steps,             \* machine: instructions executed so far
  heap,              \* dumper: the Node graph, address -> node (0 is NULL)
  dstack             \* dumper: the activations of dump_node / dump_node_list

vars == <<prog, out, out1, indent_level, wasm_label_count, current_fn, pc, subject,
          vcode, vip, vstack, vctl, verr, mem, glob_sp, locs, frames, trace, steps,
          heap, dstack>>

----------------------------------------------------------------------------
(* Types                                                                   *)

Ty(kind, size, align, uns) ==
  <<[kind |-> kind, size |-> size, align |-> align, is_unsigned |-> uns, return_ty |-> <<>>]>>

FuncTy(ret) ==
  <<[kind |-> "TY_FUNC", size |-> 1, align |-> 1, is_unsigned |-> FALSE, return_ty |-> ret]>>

ty_void   == Ty("TY_VOID", 1, 1, FALSE)
ty_bool   == Ty("TY_BOOL", 1, 1, FALSE)
ty_char   == Ty("TY_CHAR", 1, 1, FALSE)
ty_uchar  == Ty("TY_CHAR", 1, 1, TRUE)
ty_short  == Ty("TY_SHORT", 2, 2, FALSE)
ty_ushort == Ty("TY_SHORT", 2, 2, TRUE)
ty_int    == Ty("TY_INT", 4, 4, FALSE)
ty_uint   == Ty("TY_INT", 4, 4, TRUE)
ty_long4  == Ty("TY_LONG", 4, 4, FALSE)
ty_long8  == Ty("TY_LONG", 8, 8, FALSE)
ty_float  == Ty("TY_FLOAT", 4, 4, FALSE)
ty_double == Ty("TY_DOUBLE", 8, 8, FALSE)
ty_ptr    == Ty("TY_PTR", 4, 4, FALSE)
ty_struct12 == Ty("TY_STRUCT", 12, 4, FALSE)
ty_arr3   == Ty("TY_ARRAY", 3, 1, FALSE)

wasm_type(ty) ==
  IF ty = <<>> THEN "i32"
  ELSE CASE ty[1].kind = "TY_FLOAT" -> "f32"
         [] ty[1].kind \in {"TY_DOUBLE", "TY_LDOUBLE"} -> "f64"
         [] ty[1].kind = "TY_LONG" -> IF ty[1].size = 8 THEN "i64" ELSE "i32"
         [] OTHER -> "i32"

is_wasm_i64(ty) == ty # <<>> /\ ty[1].kind = "TY_LONG" /\ ty[1].size = 8
is_wasm_f32(ty) == ty # <<>> /\ ty[1].kind = "TY_FLOAT"
is_wasm_f64(ty) == ty # <<>> /\ ty[1].kind \in {"TY_DOUBLE", "TY_LDOUBLE"}
is_wasm_float(ty) == is_wasm_f32(ty) \/ is_wasm_f64(ty)

wasm_size(ty) ==
  IF ty = <<>> THEN 4
  ELSE IF ty[1].kind \in {"TY_PTR", "TY_FUNC"} THEN 4
  ELSE IF ty[1].kind = "TY_LONG" THEN 4
  ELSE ty[1].size

----------------------------------------------------------------------------
(* Output chunks                                                           *)

println(ind, fmt, n, s) == <<[ind |-> ind, fmt |-> fmt, n |-> n, s |-> s, nl |-> TRUE]>>

fprintf(fmt, n, s) == <<[ind |-> 0, fmt |-> fmt, n |-> n, s |-> s, nl |-> FALSE]>>

error_tok(fmt, n) == <<[ind |-> 0, fmt |-> fmt, n |-> n, s |-> <<"error_tok">>, nl |-> TRUE]>>

IsFatal(c) == c.s = <<"error_tok">>

Fatal(o) == \E i \in 1..Len(o) : IsFatal(o[i])

\* What reaches the stream when the process ends at the first error_tok.
UntilFatal(o) ==
  IF Fatal(o)
  THEN SubSeq(o, 1, (CHOOSE i \in 1..Len(o) :
                       IsFatal(o[i]) /\ \A j \in 1..(i-1) : ~IsFatal(o[j])))
  ELSE o

\* (int)node->val: every integer of the model lies in the range of int
\* (-2^31 .. 2^31 - 1), where the conversion leaves the value as it is.
Int32(v) == v

wasm_load(ty, ind) ==
  IF ty = <<>> THEN <<>>
  ELSE IF ty[1].kind \in {"TY_ARRAY", "TY_STRUCT", "TY_UNION", "TY_FUNC"} THEN <<>>
  ELSE IF ty[1].kind = "TY_FLOAT" THEN println(ind, "(f32.load)", <<>>, <<>>)
  ELSE IF ty[1].kind \in {"TY_DOUBLE", "TY_LDOUBLE"} THEN println(ind, "(f64.load)", <<>>, <<>>)
  ELSE CASE wasm_size(ty) = 1 ->
              println(ind, IF ty[1].is_unsigned THEN "(i32.load8_u)" ELSE "(i32.load8_s)", <<>>, <<>>)
         [] wasm_size(ty) = 2 ->
              println(ind, IF ty[1].is_unsigned THEN "(i32.load16_u)" ELSE "(i32.load16_s)", <<>>, <<>>)
         [] OTHER -> println(ind, "(i32.load)", <<>>, <<>>)

wasm_store(ty, ind) ==
  IF ty = <<>> THEN <<>>
  ELSE IF ty[1].kind \in {"TY_STRUCT", "TY_UNION"} THEN
         println(ind, ";; TODO: struct store (size=%d)", <<ty[1].size>>, <<>>)
         \o println(ind, "(drop)", <<>>, <<>>)
         \o println(ind, "(drop)", <<>>, <<>>)
  ELSE IF ty[1].kind = "TY_FLOAT" THEN println(ind, "(f32.store)", <<>>, <<>>)
  ELSE IF ty[1].kind \in {"TY_DOUBLE", "TY_LDOUBLE"} THEN println(ind, "(f64.store)", <<>>, <<>>)
  ELSE CASE wasm_size(ty) = 1 -> println(ind, "(i32.store8)", <<>>, <<>>)
         [] wasm_size(ty) = 2 -> println(ind, "(i32.store16)", <<>>, <<>>)
         [] OTHER -> println(ind, "(i32.store)", <<>>, <<>>)

----------------------------------------------------------------------------
(* Nodes and objects                                                       *)

Node(kind, ty) ==
  [kind |-> kind, ty |-> ty,
   lhs |-> <<>>, rhs |-> <<>>, cond |-> <<>>, then |-> <<>>, els |-> <<>>,
   init |-> <<>>, inc |-> <<>>, body |-> <<>>, args |-> <<>>,
   var |-> <<>>, member_offset |-> 0, val |-> 0, fval |-> 0,
   brk_label |-> "", cont_label |-> "", label |-> "", unique_label |-> "",
   case_next |-> <<>>, default_case |-> <<>>, begin |-> 0]

VarRef(name, is_local) == <<[name |-> name, is_local |-> is_local]>>

Var(name, ty, is_local) ==
  [name |-> name, ty |-> ty, is_function |-> FALSE, is_definition |-> TRUE,
   is_live |-> TRUE, is_local |-> is_local, offset |-> 0, stack_size |-> 0,
   nparams |-> 0, locals |-> <<>>, body |-> <<>>, init_data |-> <<>>]

Func(name, ret, locals, nparams, body) ==
  [name |-> name, ty |-> FuncTy(ret), is_function |-> TRUE, is_definition |-> TRUE,
   is_live |-> TRUE, is_local |-> FALSE, offset |-> 0, stack_size |-> 0,
   nparams |-> nparams, locals |-> locals, body |-> body, init_data |-> <<>>]

\* fn->params: the parameters are the tail of the fn->locals chain.
params(fn) == SubSeq(fn.locals, Len(fn.locals) - fn.nparams + 1, Len(fn.locals))

\* node->var dereferenced: the Obj a reference names, in the lists layout wrote.
VarObj(v, env) ==
  LET list == IF v[1].is_local THEN env.locals ELSE env.globals
  IN list[CHOOSE i \in 1..Len(list) : list[i].name = v[1].name]

----------------------------------------------------------------------------
(* gen_addr, gen_expr, gen_stmt                                            *)

L0(ind, fmt) == println(ind, fmt, <<>>, <<>>)

\* The typed operator of the binary fallback, after both operands were emitted.
gen_binary(nd, ind) ==
  LET is_unsigned_int == nd.lhs[1].ty # <<>> /\ nd.lhs[1].ty[1].is_unsigned
      is_float == is_wasm_float(nd.ty)
      t == IF is_float THEN wasm_type(nd.ty) ELSE "i32"
      k == nd.kind
  IN CASE k = "ND_ADD" -> println(ind, "(%s.add)", <<>>, <<t>>)
       [] k = "ND_SUB" -> println(ind, "(%s.sub)", <<>>, <<t>>)
       [] k = "ND_MUL" -> println(ind, "(%s.mul)", <<>>, <<t>>)
       [] k = "ND_DIV" ->
            IF is_float THEN println(ind, "(%s.div)", <<>>, <<t>>)
            ELSE println(ind, IF is_unsigned_int THEN "(%s.div_u)" ELSE "(%s.div_s)", <<>>, <<t>>)
       [] k = "ND_MOD" ->
            println(ind, IF is_unsigned_int THEN "(%s.rem_u)" ELSE "(%s.rem_s)", <<>>, <<t>>)
       [] k = "ND_BITAND" -> println(ind, "(%s.and)", <<>>, <<t>>)
       [] k = "ND_BITOR" -> println(ind, "(%s.or)", <<>>, <<t>>)
       [] k = "ND_BITXOR" -> println(ind, "(%s.xor)", <<>>, <<t>>)
       [] k = "ND_SHL" -> println(ind, "(%s.shl)", <<>>, <<t>>)
       [] k = "ND_SHR" ->
            println(ind, IF is_unsigned_int THEN "(%s.shr_u)" ELSE "(%s.shr_s)", <<>>, <<t>>)
       [] k = "ND_EQ" -> println(ind, "(%s.eq)", <<>>, <<t>>)
       [] k = "ND_NE" -> println(ind, "(%s.ne)", <<>>, <<t>>)
       [] k = "ND_LT" ->
            IF is_float THEN println(ind, "(%s.lt)", <<>>, <<t>>)
            ELSE println(ind, IF is_unsigned_int THEN "(%s.lt_u)" ELSE "(%s.lt_s)", <<>>, <<t>>)
       [] k = "ND_LE" ->
            IF is_float THEN println(ind, "(%s.le)", <<>>, <<t>>)
            ELSE println(ind, IF is_unsigned_int THEN "(%s.le_u)" ELSE "(%s.le_s)", <<>>, <<t>>)
       [] OTHER ->
            error_tok("unsupported expression in wasm codegen (kind=%d)", <<>>)

\* The conversion a CAST emits after its operand.
gen_cast(from, to, ind) ==
  IF from = <<>> \/ to = <<>> THEN <<>>
  ELSE IF ~is_wasm_float(from) /\ ~is_wasm_float(to) /\ ~is_wasm_i64(from) /\ ~is_wasm_i64(to)
  THEN (IF to[1].kind = "TY_BOOL" THEN L0(ind, "(i32.const 0)") \o L0(ind, "(i32.ne)")
        ELSE IF to[1].size = 1
        THEN L0(ind, IF to[1].is_unsigned THEN "(i32.const 255) (i32.and)" ELSE "(i32.extend8_s)")
        ELSE IF to[1].size = 2
        THEN L0(ind, IF to[1].is_unsigned THEN "(i32.const 65535) (i32.and)" ELSE "(i32.extend16_s)")
        ELSE <<>>)
  ELSE IF is_wasm_f32(from) /\ is_wasm_f64(to) THEN L0(ind, "(f64.promote_f32)")
  ELSE IF is_wasm_f64(from) /\ is_wasm_f32(to) THEN L0(ind, "(f32.demote_f64)")
  ELSE IF is_wasm_float(from) /\ ~is_wasm_float(to)
  THEN (IF is_wasm_f32(from)
        THEN L0(ind, IF to[1].is_unsigned THEN "(i32.trunc_f32_u)" ELSE "(i32.trunc_f32_s)")
        ELSE L0(ind, IF to[1].is_unsigned THEN "(i32.trunc_f64_u)" ELSE "(i32.trunc_f64_s)"))
  ELSE IF ~is_wasm_float(from) /\ is_wasm_float(to)
  THEN (IF is_wasm_f32(to)
        THEN L0(ind, IF from[1].is_unsigned THEN "(f32.convert_i32_u)" ELSE "(f32.convert_i32_s)")
        ELSE L0(ind, IF from[1].is_unsigned THEN "(f64.convert_i32_u)" ELSE "(f64.convert_i32_s)"))
  ELSE <<>>

\* The tee pattern of ND_ASSIGN, after the address and the value were emitted.
gen_assign_tee(ty, ind) ==
  IF is_wasm_float(ty)
  THEN println(ind, "(local.set $__tmp_%s)", <<>>, <<wasm_type(ty)>>)
       \o println(ind, "(local.get $__tmp_%s)", <<>>, <<wasm_type(ty)>>)
       \o wasm_store(ty, ind)
       \o println(ind, "(local.get $__tmp_%s)", <<>>, <<wasm_type(ty)>>)
  ELSE L0(ind, "(local.set $__tmp_i32)")
       \o L0(ind, "(local.get $__tmp_i32)")
       \o wasm_store(ty, ind)
       \o L0(ind, "(local.get $__tmp_i32)")

\* The call instruction (or the indirect-call stub) after the arguments.
gen_call(nd, ind) ==
  IF nd.lhs[1].kind = "ND_VAR"
  THEN println(ind, "(call $%s)", <<>>, <<nd.lhs[1].var[1].name>>)
  ELSE L0(ind, ";; TODO: indirect call") \o L0(ind, "(drop)") \o L0(ind, "(i32.const 0)")

\* ND_GOTO
gen_goto(nd, ind) == println(ind, ";; TODO: goto %s", <<>>, <<nd.unique_label>>)

\* ND_RETURN, after the value (if any)
gen_return(ind) == L0(ind, "(br $__return)")

\* The opening of the case tests of ND_SWITCH: one `if` per case, each one level deeper.
RECURSIVE switch_tests(_, _)
switch_tests(cases, ind) ==
  IF cases = <<>> THEN <<>>
  ELSE L0(ind, "(local.get $__tmp_i32)")
       \o println(ind, "(i32.const %ld)", <<Head(cases)>>, <<>>)
       \o L0(ind, "(i32.eq)")
       \o L0(ind, "(if (then")
       \o switch_tests(Tail(cases), ind + 1)

\* The closing of the case tests: dedent, then "))", once per case.
RECURSIVE switch_closes(_, _)
switch_closes(cases, ind) ==
  IF cases = <<>> THEN <<>>
  ELSE L0(ind - 1, "))") \o switch_closes(Tail(cases), ind - 1)

\* A lowering of && that runs the right operand whatever the left one gave.
gen_logand_eager(lhs, rhs, ind) ==
  lhs
  \o L0(ind, "(drop)")
  \o rhs
  \o L0(ind + 2, "(i32.const 0)")
  \o L0(ind + 2, "(i32.ne)")

\* case ND_LOGAND: lhs and rhs are the texts gen_expr writes for the operands,
\* rhs two levels deeper.
gen_logand(lhs, rhs, ind) ==
  lhs
  \o L0(ind, "(if (result i32)")
  \o L0(ind + 1, "(then")
  \o rhs
  \o L0(ind + 2, "(i32.const 0)")
  \o L0(ind + 2, "(i32.ne)")
  \o L0(ind + 1, ")")
  \o L0(ind + 1, "(else (i32.const 0))")
  \o L0(ind, ")")

\* case ND_LOGOR
gen_logor(lhs, rhs, ind) ==
  lhs
  \o L0(ind, "(if (result i32)")
  \o L0(ind + 1, "(then (i32.const 1))")
  \o L0(ind + 1, "(else")
  \o rhs
  \o L0(ind + 2, "(i32.const 0)")
  \o L0(ind + 2, "(i32.ne)")
  \o L0(ind + 1, ")")
  \o L0(ind, ")")

\* The six generator routines call one another; every such call goes through
\* the dispatcher gen, defined after them.
RECURSIVE gen(_, _, _, _)
Addr(nd, ind, env) == gen("gen_addr", nd, ind, env)
Expr(node, ind, env) == gen("gen_expr", node, ind, env)
Stmt(node, ind, env) == gen("gen_stmt", node, ind, env)
Args(args, ind, env) == gen("gen_args", args, ind, env)
Stmts(body, ind, env) == gen("gen_block", body, ind, env)
StmtExpr(body, ind, env) == gen("gen_stmt_expr", body, ind, env)

gen_addr(nd, ind, env) ==
  CASE nd.kind = "ND_VAR" ->
         IF nd.var[1].is_local
         THEN println(ind, "(i32.add (local.get $__bp) (i32.const %d))",
                      <<VarObj(nd.var, env).offset>>, <<>>)
         ELSE println(ind, "(i32.const %d) ;; &%s",
                      <<VarObj(nd.var, env).offset>>, <<nd.var[1].name>>)
    [] nd.kind = "ND_DEREF" -> Expr(nd.lhs, ind, env)
    [] nd.kind = "ND_COMMA" ->
         Expr(nd.lhs, ind, env) \o L0(ind, "(drop)") \o Addr(nd.rhs[1], ind, env)
    [] nd.kind = "ND_MEMBER" ->
         Addr(nd.lhs[1], ind, env)
         \o println(ind, "(i32.const %d)", <<nd.member_offset>>, <<>>)
         \o L0(ind, "(i32.add)")
    [] OTHER -> error_tok("not an lvalue (wasm gen_addr)", <<>>)

\* for (Node *arg = node->args; arg; arg = arg->next) Expr(arg);
gen_args(args, ind, env) ==
  IF args = <<>> THEN <<>>
  ELSE Expr(<<Head(args)>>, ind, env) \o Args(Tail(args), ind, env)

\* for (Node *n = node->body; n; n = n->next) Stmt(n);
gen_block(body, ind, env) ==
  IF body = <<>> THEN <<>>
  ELSE Stmt(<<Head(body)>>, ind, env) \o Stmts(Tail(body), ind, env)

\* The loop of ND_STMT_EXPR: the last statement yields the value.
gen_stmt_expr(body, ind, env) ==
  IF body = <<>> THEN <<>>
  ELSE IF Len(body) = 1
  THEN (IF body[1].kind = "ND_EXPR_STMT"
        THEN Expr(body[1].lhs, ind, env)
        ELSE Stmt(<<body[1]>>, ind, env) \o L0(ind, "(i32.const 0)"))
  ELSE Stmt(<<Head(body)>>, ind, env) \o StmtExpr(Tail(body), ind, env)

gen_expr(node, ind, env) ==
  IF node = <<>> THEN <<>>
  ELSE
  LET nd == node[1]
      k == nd.kind
  IN
  CASE k = "ND_NULL_EXPR" -> L0(ind, "(i32.const 0)")
    [] k = "ND_NUM" ->
         IF is_wasm_f32(nd.ty) THEN println(ind, "(f32.const %f)", <<nd.fval>>, <<>>)
         ELSE IF is_wasm_f64(nd.ty) THEN println(ind, "(f64.const %f)", <<nd.fval>>, <<>>)
         ELSE IF is_wasm_i64(nd.ty) THEN println(ind, "(i64.const %lld)", <<nd.val>>, <<>>)
         ELSE println(ind, "(i32.const %d)", <<Int32(nd.val)>>, <<>>)
    [] k = "ND_VAR" -> Addr(nd, ind, env) \o wasm_load(nd.ty, ind)
    [] k = "ND_MEMBER" -> Addr(nd, ind, env) \o wasm_load(nd.ty, ind)
    [] k = "ND_ADDR" -> Addr(nd.lhs[1], ind, env)
    [] k = "ND_DEREF" -> Expr(nd.lhs, ind, env) \o wasm_load(nd.ty, ind)
    [] k = "ND_NEG" ->
         IF is_wasm_f32(nd.ty) THEN Expr(nd.lhs, ind, env) \o L0(ind, "(f32.neg)")
         ELSE IF is_wasm_f64(nd.ty) THEN Expr(nd.lhs, ind, env) \o L0(ind, "(f64.neg)")
         ELSE L0(ind, "(i32.const 0)") \o Expr(nd.lhs, ind, env) \o L0(ind, "(i32.sub)")
    [] k = "ND_NOT" -> Expr(nd.lhs, ind, env) \o L0(ind, "(i32.eqz)")
    [] k = "ND_BITNOT" ->
         Expr(nd.lhs, ind, env) \o L0(ind, "(i32.const -1)") \o L0(ind, "(i32.xor)")
    [] k = "ND_ASSIGN" ->
         Addr(nd.lhs[1], ind, env) \o Expr(nd.rhs, ind, env)
         \o gen_assign_tee(nd.ty, ind)
    [] k = "ND_COMMA" ->
         Expr(nd.lhs, ind, env) \o L0(ind, "(drop)") \o Expr(nd.rhs, ind, env)
    [] k = "ND_CAST" ->
         Expr(nd.lhs, ind, env) \o gen_cast(nd.lhs[1].ty, nd.ty, ind)
    [] k = "ND_COND" ->
         Expr(nd.cond, ind, env)
         \o println(ind, "(if (result %s)", <<>>, <<wasm_type(nd.ty)>>)
         \o L0(ind + 1, "(then")
         \o Expr(nd.then, ind + 2, env)
         \o L0(ind + 1, ")")
         \o L0(ind + 1, "(else")
         \o (IF nd.els # <<>> THEN Expr(nd.els, ind + 2, env)
             ELSE println(ind + 2, "(%s.const 0)", <<>>, <<wasm_type(nd.ty)>>))
         \o L0(ind + 1, ")")
         \o L0(ind, ")")
    [] k = "ND_LOGAND" ->
         gen_logand(Expr(nd.lhs, ind, env), Expr(nd.rhs, ind + 2, env), ind)
    [] k = "ND_LOGOR" ->
         gen_logor(Expr(nd.lhs, ind, env), Expr(nd.rhs, ind + 2, env), ind)
    [] k = "ND_FUNCALL" -> Args(nd.args, ind, env) \o gen_call(nd, ind)
    [] k = "ND_STMT_EXPR" -> StmtExpr(nd.body, ind, env)
    [] k = "ND_MEMZERO" ->
         println(ind, ";; memzero %s (%d bytes)",
                 <<VarObj(nd.var, env).ty[1].size>>, <<nd.var[1].name>>)
         \o println(ind, "(i32.add (local.get $__bp) (i32.const %d))",
                    <<VarObj(nd.var, env).offset>>, <<>>)
         \o L0(ind, "(i32.const 0)")
         \o println(ind, "(i32.const %d)", <<VarObj(nd.var, env).ty[1].size>>, <<>>)
         \o L0(ind, "(memory.fill)")
    [] OTHER ->
         IF nd.lhs # <<>> /\ nd.rhs # <<>>
         THEN Expr(nd.lhs, ind, env) \o Expr(nd.rhs, ind, env) \o gen_binary(nd, ind)
         ELSE error_tok("unsupported expression in wasm codegen (kind=%d)", <<>>)

gen_stmt(node, ind, env) ==
  IF node = <<>> THEN <<>>
  ELSE
  LET nd == node[1]
      k == nd.kind
  IN
  CASE k = "ND_RETURN" ->
         (IF nd.lhs # <<>> THEN Expr(nd.lhs, ind, env) ELSE <<>>) \o gen_return(ind)
    [] k = "ND_EXPR_STMT" ->
         Expr(nd.lhs, ind, env)
         \o (IF nd.lhs # <<>> /\ nd.lhs[1].ty # <<>> /\ nd.lhs[1].ty[1].kind # "TY_VOID"
             THEN L0(ind, "(drop)") ELSE <<>>)
    [] k = "ND_BLOCK" -> Stmts(nd.body, ind, env)
    [] k = "ND_IF" ->
         Expr(nd.cond, ind, env)
         \o L0(ind, "(if")
         \o L0(ind + 1, "(then")
         \o Stmt(nd.then, ind + 2, env)
         \o L0(ind + 1, ")")
         \o (IF nd.els # <<>>
             THEN L0(ind + 1, "(else") \o Stmt(nd.els, ind + 2, env) \o L0(ind + 1, ")")
             ELSE <<>>)
         \o L0(ind, ")")
    [] k = "ND_FOR" ->
         (IF nd.init # <<>> THEN Stmt(nd.init, ind, env) ELSE <<>>)
         \o println(ind, "(block $%s ;; break target", <<>>, <<nd.brk_label>>)
         \o println(ind + 1, "(loop $%s ;; continue target", <<>>, <<nd.cont_label>>)
         \o (IF nd.cond # <<>>
             THEN Expr(nd.cond, ind + 2, env)
                  \o L0(ind + 2, "(i32.eqz)")
                  \o println(ind + 2, "(br_if $%s)", <<>>, <<nd.brk_label>>)
             ELSE <<>>)
         \o Stmt(nd.then, ind + 2, env)
         \o (IF nd.inc # <<>>
             THEN Expr(nd.inc, ind + 2, env) \o L0(ind + 2, "(drop)")
             ELSE <<>>)
         \o println(ind + 2, "(br $%s)", <<>>, <<nd.cont_label>>)
         \o L0(ind + 1, ") ;; end loop")
         \o L0(ind, ") ;; end block")
    [] k = "ND_DO" ->
         println(ind, "(block $%s ;; break target", <<>>, <<nd.brk_label>>)
         \o println(ind + 1, "(loop $%s ;; continue target", <<>>, <<nd.cont_label>>)
         \o Stmt(nd.then, ind + 2, env)
         \o Expr(nd.cond, ind + 2, env)
         \o println(ind + 2, "(br_if $%s)", <<>>, <<nd.cont_label>>)
         \o L0(ind + 1, ") ;; end loop")
         \o L0(ind, ") ;; end block")
    [] k = "ND_SWITCH" ->
         Expr(nd.cond, ind, env)
         \o L0(ind, "(local.set $__tmp_i32)")
         \o println(ind, "(block $%s ;; break target", <<>>, <<nd.brk_label>>)
         \o switch_tests(nd.case_next, ind + 1)
         \o Stmt(nd.then, ind + 1 + Len(nd.case_next), env)
         \o switch_closes(nd.case_next, ind + 1 + Len(nd.case_next))
         \o L0(ind, ") ;; end break block")
    [] k = "ND_CASE" -> Stmt(nd.lhs, ind, env)
    [] k = "ND_GOTO" -> gen_goto(nd, ind)
    [] k = "ND_LABEL" ->
         println(ind, ";; label: %s", <<>>, <<nd.label>>) \o Stmt(nd.lhs, ind, env)
    [] OTHER -> error_tok("unsupported statement in wasm codegen (kind=%d)", <<>>)

gen(what, x, ind, env) ==
  CASE what = "gen_addr" -> gen_addr(x, ind, env)
    [] what = "gen_expr" -> gen_expr(x, ind, env)
    [] what = "gen_stmt" -> gen_stmt(x, ind, env)
    [] what = "gen_args" -> gen_args(x, ind, env)
    [] what = "gen_block" -> gen_block(x, ind, env)
    [] what = "gen_stmt_expr" -> gen_stmt_expr(x, ind, env)

----------------------------------------------------------------------------
(* Memory layout                                                           *)

\* align_to(n, align) of the front end: round n up to a multiple of align.
align_to(n, align) == ((n + align - 1) \div align) * align

\* The offset a variable gets: the running offset aligned to max(align, 1).
var_offset_unaligned(offset, var) == offset
var_offset(offset, var) ==
  align_to(offset, IF var.ty[1].align > 0 THEN var.ty[1].align ELSE 1)

\* `offset += var->ty->size;`: the running offset after a variable placed at
\* offset.
var_end_short(offset, var) == offset + var.ty[1].size - 1
var_end(offset, var) == offset + var.ty[1].size

\* `int offset = 0;` of assign_wasm_offsets
frame_start_stale(fn) == fn.stack_size
frame_start(fn) == 0

\* `int offset = 0;` of assign_global_offsets
globals_start(p) == 0

\* The inner loop of assign_wasm_offsets over fn->locals.
RECURSIVE layout_locals(_, _)
layout_locals(locals, offset) ==
  IF locals = <<>> THEN [vars |-> <<>>, offset |-> offset]
  ELSE LET var == Head(locals)
           o == var_offset(offset, var)
           rest == layout_locals(Tail(locals), var_end(o, var))
       IN [vars |-> <<[var EXCEPT !.offset = o]>> \o rest.vars, offset |-> rest.offset]

assign_wasm_offsets(p) ==
  [i \in 1..Len(p) |->
     IF ~p[i].is_function THEN p[i]
     ELSE LET r == layout_locals(p[i].locals, frame_start(p[i]))
          IN [p[i] EXCEPT !.locals = r.vars, !.stack_size = align_to(r.offset, 16)]]

\* The loop of assign_global_offsets over the program list, skipping functions.
RECURSIVE layout_globals(_, _)
layout_globals(p, offset) ==
  IF p = <<>> THEN [vars |-> <<>>, offset |-> offset]
  ELSE LET var == Head(p)
       IN IF var.is_function
          THEN LET rest == layout_globals(Tail(p), offset)
               IN [vars |-> <<var>> \o rest.vars, offset |-> rest.offset]
          ELSE LET o == var_offset(offset, var)
                   rest == layout_globals(Tail(p), var_end(o, var))
               IN [vars |-> <<[var EXCEPT !.offset = o]>> \o rest.vars,
                   offset |-> rest.offset]

\* Returns the program with the globals' offsets written, and the data size.
assign_global_offsets(p) ==
  LET r == layout_globals(p, globals_start(p))
  IN [prog |-> r.vars, data_size |-> align_to(r.offset, 16)]

----------------------------------------------------------------------------
(* Module emission                                                         *)

\* The bytes of one initialised global, escaped.
RECURSIVE emit_bytes(_, _, _)
emit_bytes(data, i, size) ==
  IF i > size THEN <<>>
  ELSE (IF data[i] >= 32 /\ data[i] < 127 /\ data[i] # 34 /\ data[i] # 92
        THEN fprintf("%c", <<data[i]>>, <<>>)
        ELSE fprintf("\\%02x", <<data[i]>>, <<>>))
       \o emit_bytes(data, i + 1, size)

RECURSIVE emit_data(_, _)
emit_data(p, ind) ==
  IF p = <<>> THEN <<>>
  ELSE LET var == Head(p)
       IN (IF var.is_function \/ var.init_data = <<>> THEN <<>>
           ELSE println(ind, ";; global: %s (offset=%d, size=%d)",
                        <<var.offset, var.ty[1].size>>, <<var.name>>)
                \o fprintf("  (data (i32.const %d) \"", <<var.offset>>, <<>>)
                \o emit_bytes(var.init_data[1], 1, var.ty[1].size)
                \o fprintf("\")\n", <<>>, <<>>))
          \o emit_data(Tail(p), ind)

\* " (param $p_%s %s)" for each parameter
RECURSIVE emit_params(_)
emit_params(ps) ==
  IF ps = <<>> THEN <<>>
  ELSE fprintf(" (param $p_%s %s)", <<>>, <<Head(ps).name, wasm_type(Head(ps).ty)>>)
       \o emit_params(Tail(ps))

\* Copy parameters to their stack slots
RECURSIVE emit_param_spill(_, _)
emit_param_spill(ps, ind) ==
  IF ps = <<>> THEN <<>>
  ELSE println(ind, ";; store param %s at bp+%d", <<Head(ps).offset>>, <<Head(ps).name>>)
       \o println(ind, "(i32.add (local.get $__bp) (i32.const %d))", <<Head(ps).offset>>, <<>>)
       \o println(ind, "(local.get $p_%s)", <<>>, <<Head(ps).name>>)
       \o wasm_store(Head(ps).ty, ind)
       \o emit_param_spill(Tail(ps), ind)

has_return(fn) == fn.ty[1].return_ty # <<>> /\ fn.ty[1].return_ty[1].kind # "TY_VOID"

emit_prologue(fn, ind) ==
  println(ind, ";; prologue: allocate %d bytes", <<fn.stack_size>>, <<>>)
  \o println(ind, "(global.set $__sp (i32.sub (global.get $__sp) (i32.const %d)))",
             <<fn.stack_size>>, <<>>)
  \o L0(ind, "(local.set $__bp (global.get $__sp))")

emit_epilogue_none(fn, ind) == L0(ind, ";; epilogue")
emit_epilogue(fn, ind) ==
  L0(ind, ";; epilogue")
  \o println(ind, "(global.set $__sp (i32.add (local.get $__bp) (i32.const %d)))",
             <<fn.stack_size>>, <<>>)

\* Default return value (for main, return 0)
emit_default_return(fn, ind) ==
  IF has_return(fn)
  THEN (IF fn.name = "main" THEN L0(ind, "(i32.const 0)")
        ELSE println(ind, "(%s.const 0) ;; implicit return",
                     <<>>, <<wasm_type(fn.ty[1].return_ty)>>))
  ELSE <<>>

\* The body of the loop of emit_functions for one live definition.
emit_function(fn, p) ==
  fprintf("  (func $%s", <<>>, <<fn.name>>)
  \o (IF fn.name = "main" THEN fprintf(" (export \"_start\")", <<>>, <<>>) ELSE <<>>)
  \o emit_params(params(fn))
  \o (IF has_return(fn)
      THEN fprintf(" (result %s)", <<>>, <<wasm_type(fn.ty[1].return_ty)>>) ELSE <<>>)
  \o fprintf("\n", <<>>, <<>>)
  \o L0(2, "(local $__bp i32)  ;; base pointer")
  \o L0(2, "(local $__tmp_i32 i32)")
  \o L0(2, "(local $__tmp_f32 f32)")
  \o L0(2, "(local $__tmp_f64 f64)")
  \o emit_prologue(fn, 2)
  \o emit_param_spill(params(fn), 2)
  \o (IF has_return(fn)
      THEN println(2, "(block $__return (result %s)", <<>>, <<wasm_type(fn.ty[1].return_ty)>>)
      ELSE L0(2, "(block $__return"))
  \o gen_stmt(fn.body, 3, [locals |-> fn.locals, globals |-> p])
  \o emit_default_return(fn, 3)
  \o L0(2, ") ;; end block $__return")
  \o emit_epilogue(fn, 2)
  \o println(1, ") ;; end func $%s", <<>>, <<fn.name>>)
  \o fprintf("\n", <<>>, <<>>)

\* if (!fn->is_function || !fn->is_definition) continue; if (!fn->is_live) continue;
Emitted(fn) == fn.is_function /\ fn.is_definition /\ fn.is_live

\* The chunks the loop of emit_functions writes for the list `rest` of program p.
RECURSIVE emit_functions(_, _)
emit_functions(rest, p) ==
  IF rest = <<>> THEN <<>>
  ELSE (IF Emitted(Head(rest)) THEN emit_function(Head(rest), p) ELSE <<>>)
       \o emit_functions(Tail(rest), p)

\* The static state [indent_level, wasm_label_count, current_fn] the loop of
\* emit_functions leaves when entered with st: each emitted function sets
\* current_fn = fn, wasm_label_count = 0 and, at its end, indent_level = 1.
RECURSIVE statics_after_functions(_, _)
statics_after_functions(rest, st) ==
  IF rest = <<>> THEN st
  ELSE statics_after_functions(
         Tail(rest),
         IF Emitted(Head(rest))
         THEN [indent_level |-> 1, wasm_label_count |-> 0, current_fn |-> Head(rest).name]
         ELSE st)

stack_start(data_size) ==
  IF align_to(data_size + 1024, 65536) < 65536 THEN 65536
  ELSE align_to(data_size + 1024, 65536)

\* The two layout passes of codegen_wasm: the program with every offset and
\* stack_size written.
layout(p) == assign_wasm_offsets(assign_global_offsets(p).prog)

\* One run of codegen_wasm on program p from the static state st: the laid-out
\* program, everything the run would write if no error_tok ended it, and the
\* static state at its end.  indent_level is set to 0 on entry, raised by
\* indent() before the module's contents and lowered by dedent() after them.
codegen_wasm(p, st) ==
  [prog |-> layout(p),
   text |-> L0(0, "(module")
            \o L0(0 + 1, "(memory (export \"memory\") 2)")
            \o fprintf("\n", <<>>, <<>>)
            \o println(0 + 1, ";; Stack pointer (grows downward from %d)",
                       <<stack_start(assign_global_offsets(p).data_size)>>, <<>>)
            \o println(0 + 1, "(global $__sp (mut i32) (i32.const %d))",
                       <<stack_start(assign_global_offsets(p).data_size)>>, <<>>)
            \o fprintf("\n", <<>>, <<>>)
            \o emit_data(layout(p), 0 + 1)
            \o fprintf("\n", <<>>, <<>>)
            \o emit_functions(layout(p), layout(p))
            \o L0(statics_after_functions(
                    p, [indent_level |-> 0 + 1, wasm_label_count |-> st.wasm_label_count,
                        current_fn |-> st.current_fn]).indent_level - 1, ")"),
   st |-> [statics_after_functions(
             p, [indent_level |-> 0 + 1, wasm_label_count |-> st.wasm_label_count,
                 current_fn |-> st.current_fn])
           EXCEPT !.indent_level = @ - 1]]

----------------------------------------------------------------------------
(* Reading the emitted text: the instruction sequence the chunks denote    *)

I(op, t, n, s) == [op |-> op, t |-> t, n |-> n, s |-> s]

\* The instructions of one chunk that neither opens nor closes a form.
PlainInstrs(c) ==
  LET f == c.fmt IN
  CASE f \in {"(i32.const 0)"} -> <<I("const", "i32", 0, "")>>
    [] f = "(i32.const -1)" -> <<I("const", "i32", -1, "")>>
    [] f \in {"(i32.const %d)", "(i32.const %ld)", "(i32.const %d) ;; &%s"} ->
         <<I("const", "i32", c.n[1], "")>>
    [] f = "(i64.const %lld)" -> <<I("const", "i64", c.n[1], "")>>
    [] f = "(f32.const %f)" -> <<I("const", "f32", c.n[1], "")>>
    [] f = "(f64.const %f)" -> <<I("const", "f64", c.n[1], "")>>
    [] f \in {"(%s.const 0)", "(%s.const 0) ;; implicit return"} -> <<I("const", c.s[1], 0, "")>>
    [] f = "(i32.add (local.get $__bp) (i32.const %d))" ->
         <<I("local.get", "", 0, "__bp"), I("const", "i32", c.n[1], ""), I("binop", "i32", 0, "add")>>
    [] f = "(f32.load)" -> <<I("load", "f32", 4, "")>>
    [] f = "(f64.load)" -> <<I("load", "f64", 8, "")>>
    [] f = "(i32.load8_u)" -> <<I("load", "i32", 1, "u")>>
    [] f = "(i32.load8_s)" -> <<I("load", "i32", 1, "s")>>
    [] f = "(i32.load16_u)" -> <<I("load", "i32", 2, "u")>>
    [] f = "(i32.load16_s)" -> <<I("load", "i32", 2, "s")>>
    [] f = "(i32.load)" -> <<I("load", "i32", 4, "")>>
    [] f = "(f32.store)" -> <<I("store", "f32", 4, "")>>
    [] f = "(f64.store)" -> <<I("store", "f64", 8, "")>>
    [] f = "(i32.store8)" -> <<I("store", "i32", 1, "")>>
    [] f = "(i32.store16)" -> <<I("store", "i32", 2, "")>>
    [] f = "(i32.store)" -> <<I("store", "i32", 4, "")>>
    [] f = "(drop)" -> <<I("drop", "", 0, "")>>
    [] f = "(f32.neg)" -> <<I("unop", "f32", 0, "neg")>>
    [] f = "(f64.neg)" -> <<I("unop", "f64", 0, "neg")>>
    [] f = "(i32.sub)" -> <<I("binop", "i32", 0, "sub")>>
    [] f = "(i32.add)" -> <<I("binop", "i32", 0, "add")>>
    [] f = "(i32.xor)" -> <<I("binop", "i32", 0, "xor")>>
    [] f = "(i32.eq)" -> <<I("relop", "i32", 0, "eq")>>
    [] f = "(i32.ne)" -> <<I("relop", "i32", 0, "ne")>>
    [] f = "(i32.eqz)" -> <<I("eqz", "i32", 0, "")>>
    [] f = "(%s.add)" -> <<I("binop", c.s[1], 0, "add")>>
    [] f = "(%s.sub)" -> <<I("binop", c.s[1], 0, "sub")>>
    [] f = "(%s.mul)" -> <<I("binop", c.s[1], 0, "mul")>>
    [] f = "(%s.div)" -> <<I("binop", c.s[1], 0, "div")>>
    [] f = "(%s.div_u)" -> <<I("binop", c.s[1], 0, "div_u")>>
    [] f = "(%s.div_s)" -> <<I("binop", c.s[1], 0, "div_s")>>
    [] f = "(%s.rem_u)" -> <<I("binop", c.s[1], 0, "rem_u")>>
    [] f = "(%s.rem_s)" -> <<I("binop", c.s[1], 0, "rem_s")>>
    [] f = "(%s.and)" -> <<I("binop", c.s[1], 0, "and")>>
    [] f = "(%s.or)" -> <<I("binop", c.s[1], 0, "or")>>
    [] f = "(%s.xor)" -> <<I("binop", c.s[1], 0, "xor")>>
    [] f = "(%s.shl)" -> <<I("binop", c.s[1], 0, "shl")>>
    [] f = "(%s.shr_u)" -> <<I("binop", c.s[1], 0, "shr_u")>>
    [] f = "(%s.shr_s)" -> <<I("binop", c.s[1], 0, "shr_s")>>
    [] f = "(%s.eq)" -> <<I("relop", c.s[1], 0, "eq")>>
    [] f = "(%s.ne)" -> <<I("relop", c.s[1], 0, "ne")>>
    [] f = "(%s.lt)" -> <<I("relop", c.s[1], 0, "lt")>>
    [] f = "(%s.lt_u)" -> <<I("relop", c.s[1], 0, "lt_u")>>
    [] f = "(%s.lt_s)" -> <<I("relop", c.s[1], 0, "lt_s")>>
    [] f = "(%s.le)" -> <<I("relop", c.s[1], 0, "le")>>
    [] f = "(%s.le_u)" -> <<I("relop", c.s[1], 0, "le_u")>>
    [] f = "(%s.le_s)" -> <<I("relop", c.s[1], 0, "le_s")>>
    [] f = "(local.set $__tmp_%s)" -> <<I("local.set", "", 0, "__tmp_" \o c.s[1])>>
    [] f = "(local.get $__tmp_%s)" -> <<I("local.get", "", 0, "__tmp_" \o c.s[1])>>
    [] f = "(local.set $__tmp_i32)" -> <<I("local.set", "", 0, "__tmp_i32")>>
    [] f = "(local.get $__tmp_i32)" -> <<I("local.get", "", 0, "__tmp_i32")>>
    [] f = "(local.get $p_%s)" -> <<I("local.get", "", 0, "p_" \o c.s[1])>>
    [] f = "(i32.const 255) (i32.and)" ->
         <<I("const", "i32", 255, ""), I("binop", "i32", 0, "and")>>
    [] f = "(i32.const 65535) (i32.and)" ->
         <<I("const", "i32", 65535, ""), I("binop", "i32", 0, "and")>>
    [] f = "(i32.extend8_s)" -> <<I("cvt", "i32", 0, "i32")>>
    [] f = "(i32.extend16_s)" -> <<I("cvt", "i32", 0, "i32")>>
    [] f = "(f64.promote_f32)" -> <<I("cvt", "f64", 0, "f32")>>
    [] f = "(f32.demote_f64)" -> <<I("cvt", "f32", 0, "f64")>>
    [] f \in {"(i32.trunc_f32_u)", "(i32.trunc_f32_s)"} -> <<I("cvt", "i32", 0, "f32")>>
    [] f \in {"(i32.trunc_f64_u)", "(i32.trunc_f64_s)"} -> <<I("cvt", "i32", 0, "f64")>>
    [] f \in {"(f32.convert_i32_u)", "(f32.convert_i32_s)"} -> <<I("cvt", "f32", 0, "i32")>>
    [] f \in {"(f64.convert_i32_u)", "(f64.convert_i32_s)"} -> <<I("cvt", "f64", 0, "i32")>>
    [] f = "(then (i32.const 1))" -> <<I("const", "i32", 1, "")>>
    [] f = "(else (i32.const 0))" -> <<I("else", "", 0, ""), I("const", "i32", 0, "")>>
    [] f = "(br $__return)" -> <<I("br", "", 0, "__return")>>
    [] f = "(br $%s)" -> <<I("br", "", 0, c.s[1])>>
    [] f = "(br_if $%s)" -> <<I("br_if", "", 0, c.s[1])>>
    [] f = "(call $%s)" -> <<I("call", "", 0, c.s[1])>>
    [] f = "(memory.fill)" -> <<I("memory.fill", "", 0, "")>>
    [] f = "(global.set $__sp (i32.sub (global.get $__sp) (i32.const %d)))" ->
         <<I("global.get", "", 0, "__sp"), I("const", "i32", c.n[1], ""),
           I("binop", "i32", 0, "sub"), I("global.set", "", 0, "__sp")>>
    [] f = "(local.set $__bp (global.get $__sp))" ->
         <<I("global.get", "", 0, "__sp"), I("local.set", "", 0, "__bp")>>
    [] f = "(global.set $__sp (i32.add (local.get $__bp) (i32.const %d)))" ->
         <<I("local.get", "", 0, "__bp"), I("const", "i32", c.n[1], ""),
           I("binop", "i32", 0, "add"), I("global.set", "", 0, "__sp")>>
    [] f = "(block $%s ;; break target" -> <<I("block", "", 0, c.s[1])>>
    [] f = "(loop $%s ;; continue target" -> <<I("loop", "", 0, c.s[1])>>
    [] f = "(block $__return (result %s)" -> <<I("block", c.s[1], 0, "__return")>>
    [] f = "(block $__return" -> <<I("block", "", 0, "__return")>>
    [] f \in {") ;; end loop", ") ;; end block", ") ;; end break block",
              ") ;; end block $__return"} -> <<I("end", "", 0, "")>>
    [] f = "(if (result %s)" -> <<I("if", c.s[1], 0, "")>>
    [] f = "(if (result i32)" -> <<I("if", "i32", 0, "")>>
    [] f \in {"(if", "(if (then"} -> <<I("if", "", 0, "")>>
    [] f = "(else" -> <<I("else", "", 0, "")>>
    [] IsFatal(c) -> <<I("fatal", "", 0, "")>>
    [] OTHER -> <<>>   \* comments, declarations, the function header, "(then"

\* The forms a chunk opens, innermost last.
Opens(c) ==
  CASE c.fmt \in {"(if (result %s)", "(if (result i32)", "(if"} -> <<"if">>
    [] c.fmt = "(if (then" -> <<"if", "then">>
    [] c.fmt = "(then" -> <<"then">>
    [] c.fmt = "(else" -> <<"else">>
    [] OTHER -> <<>>

\* Closing the innermost open form with one ")": an `if` form ends there, a
\* `then` or `else` form adds nothing.
RECURSIVE CloseForms(_, _)
CloseForms(open, k) ==
  IF k = 0 \/ open = <<>> THEN [open |-> open, code |-> <<>>]
  ELSE LET r == CloseForms(SubSeq(open, 1, Len(open) - 1), k - 1)
       IN [open |-> r.open,
           code |-> (IF open[Len(open)] = "if" THEN <<I("end", "", 0, "")>> ELSE <<>>) \o r.code]

\* One chunk read with the forms `open` still open: its instructions and the
\* forms open after it.
DecodeChunk(c, open) ==
  IF c.fmt = ")" THEN CloseForms(open, 1)
  ELSE IF c.fmt = "))" THEN CloseForms(open, 2)
  ELSE [open |-> open \o Opens(c), code |-> PlainInstrs(c)]

AfterCode(code, r) == [open |-> r.open, code |-> code \o r.code]

\* The only element of a one-element set.
The(S) == CHOOSE x \in S : TRUE

\* The chunks lo..hi of o, read in order: the first half, then the second
\* half with the forms the first half left open.
RECURSIVE DecodeRange(_, _, _, _)
DecodeRange(o, lo, hi, open) ==
  IF lo > hi THEN [open |-> open, code |-> <<>>]
  ELSE IF lo = hi THEN DecodeChunk(o[lo], open)
  ELSE The({AfterCode(r.code, DecodeRange(o, (lo + hi) \div 2 + 1, hi, r.open)) :
              r \in {DecodeRange(o, lo, (lo + hi) \div 2, open)}})

\* The instruction sequence of the chunks from index i on, with `open` the
\* if / then / else forms still open.
Decode(o, i, open) == DecodeRange(o, i, Len(o), open).code

----------------------------------------------------------------------------
(* Programs handed to codegen_wasm                                         *)

MaxVars == 2

GNames == <<"g1", "g2", "g3", "g4">>
LNames == <<"x1", "x2", "x3", "x4">>

\* Types of variables: scalars, an aggregate, a byte array, and a type whose
\* align field is 0 (the case the layout code guards with `align > 0 ? align : 1`).
ty_noalign == Ty("TY_STRUCT", 5, 0, FALSE)
VarTypes == {ty_char, ty_short, ty_int, ty_double, ty_struct12, ty_arr3, ty_noalign}

TypeLists == UNION {[1..n -> {t[1] : t \in VarTypes}] : n \in 0..MaxVars}

Num(v) == [Node("ND_NUM", ty_int) EXCEPT !.val = v]
FNum(v) == [Node("ND_NUM", ty_float) EXCEPT !.fval = v]
LVar(name, ty) == [Node("ND_VAR", ty) EXCEPT !.var = VarRef(name, TRUE)]
GVar(name, ty) == [Node("ND_VAR", ty) EXCEPT !.var = VarRef(name, FALSE)]
Unary(kind, ty, a) == [Node(kind, ty) EXCEPT !.lhs = <<a>>]
Binary(kind, ty, a, b) == [Node(kind, ty) EXCEPT !.lhs = <<a>>, !.rhs = <<b>>]
ExprStmt(e) == Unary("ND_EXPR_STMT", <<>>, e)
Return(e) == Unary("ND_RETURN", <<>>, e)
Block(body) == [Node("ND_BLOCK", <<>>) EXCEPT !.body = body]

\* The kinds the specification lists as unsupported in the core.
UnsupportedKinds == {"ND_ASM", "ND_CAS", "ND_EXCH", "ND_VLA_PTR", "ND_GOTO_EXPR", "ND_LABEL_VAL"}

\* How the front end places a node of each of these kinds in a function body.
UnsupportedStmt(k) ==
  CASE k \in {"ND_ASM", "ND_GOTO_EXPR"} -> Node(k, <<>>)
    [] k = "ND_EXCH" -> ExprStmt(Binary(k, ty_int, Num(1), Num(2)))
    [] OTHER -> ExprStmt(Node(k, ty_int))

\* Bodies of the function f: what it returns and which statements follow the
\* statements that take the addresses of its variables.
Shapes ==
  {[ret |-> r, main_ret |-> ty_int, extra |-> <<Return(Num(1))>>, def |-> TRUE, live |-> TRUE]
     : r \in {ty_int, ty_double, ty_float}}
  \cup {[ret |-> ty_void, main_ret |-> m, extra |-> <<>>, def |-> d, live |-> l]
     : m \in {ty_int, ty_float, ty_double, ty_void}, d \in BOOLEAN, l \in BOOLEAN}
  \cup {[ret |-> ty_int, main_ret |-> ty_int, extra |-> <<UnsupportedStmt(k)>>,
         def |-> TRUE, live |-> TRUE] : k \in UnsupportedKinds}

\* Statements taking the address of every local and every global.
Touch(tys) ==
  [i \in 1..(2 * Len(tys)) |->
     IF i <= Len(tys)
     THEN ExprStmt(Unary("ND_ADDR", ty_ptr, LVar(LNames[i], <<tys[i]>>)))
     ELSE ExprStmt(Unary("ND_ADDR", ty_ptr, GVar(GNames[i - Len(tys)], <<tys[i - Len(tys)]>>)))]

InitData(ty) == IF ty.kind = "TY_ARRAY" THEN <<<<104, 34, 0>>>> ELSE <<>>

Program(tys, sh) ==
  [i \in 1..Len(tys) |->
     [Var(GNames[i], <<tys[i]>>, FALSE) EXCEPT !.init_data = InitData(tys[i])]]
  \o <<[Func("f", sh.ret, [i \in 1..Len(tys) |-> Var(LNames[i], <<tys[i]>>, TRUE)],
             IF Len(tys) > 0 THEN 1 ELSE 0,
             <<Block(Touch(tys) \o sh.extra)>>)
        EXCEPT !.is_definition = sh.def, !.is_live = sh.live],
       Func("main", sh.main_ret, <<>>, 0,
            <<Block(<<Return(IF is_wasm_float(sh.main_ret) THEN FNum(3) ELSE Num(0))>>)>>)>>

\* struct { char b[131000]; }: a global that fills most of the two pages.
ty_big == Ty("TY_STRUCT", 131000, 1, FALSE)

\* Programs with one large object among their variables.
BigPrograms ==
  {Program(tys, [ret |-> ty_int, main_ret |-> ty_int, extra |-> <<Return(Num(1))>>,
                 def |-> TRUE, live |-> TRUE])
     : tys \in {<<ty_big[1]>>, <<ty_int[1], ty_big[1]>>, <<ty_big[1], ty_char[1]>>}}

Programs == {Program(tys, sh) : tys \in TypeLists, sh \in Shapes} \cup BigPrograms

----------------------------------------------------------------------------
(* The driver: codegen_wasm run once, then once more on what it left       *)

Statics == [indent_level |-> indent_level, wasm_label_count |-> wasm_label_count,
            current_fn |-> current_fn]

MachineIdle ==
  /\ subject = <<>> /\ vcode = <<>> /\ vip = 0 /\ vstack = <<>> /\ vctl = <<>>
  /\ verr = "" /\ mem = <<>> /\ glob_sp = 0 /\ locs = <<>> /\ frames = <<>> /\ trace = <<>>
  /\ steps = 0 /\ heap = <<>> /\ dstack = <<>>

machine == <<subject, vcode, vip, vstack, vctl, verr, mem, glob_sp, locs, frames, trace, steps,
             heap, dstack>>

Init ==
  /\ prog \in Programs
  /\ out = <<>> /\ out1 = <<>>
  /\ indent_level = 0 /\ wasm_label_count = 0 /\ current_fn = ""
  /\ pc = "start"
  /\ MachineIdle

Codegen ==
  /\ pc = "start"
  /\ \E r \in {codegen_wasm(prog, Statics)} :
        /\ prog' = r.prog
        /\ out' = UntilFatal(r.text)
        /\ out1' = UntilFatal(r.text)
        /\ indent_level' = r.st.indent_level
        /\ wasm_label_count' = r.st.wasm_label_count
        /\ current_fn' = r.st.current_fn
        /\ pc' = IF Fatal(r.text) THEN "fatal" ELSE "done1"
  /\ UNCHANGED machine

CodegenAgain ==
  /\ pc = "done1"
  /\ \E r \in {codegen_wasm(prog, Statics)} :
        /\ prog' = r.prog
        /\ out' = UntilFatal(r.text)
        /\ indent_level' = r.st.indent_level
        /\ wasm_label_count' = r.st.wasm_label_count
        /\ current_fn' = r.st.current_fn
        /\ pc' = IF Fatal(r.text) THEN "fatal" ELSE "done2"
  /\ UNCHANGED <<out1, machine>>

Next == Codegen \/ CodegenAgain

Spec == Init /\ [][Next]_vars

----------------------------------------------------------------------------
(* Claims about the layout pass and the emitted module (specification Spec) *)

\* The variables of the program list, in list order (functions are skipped).
GlobalVars(p) == SelectSeq(p, LAMBDA o : ~o.is_function)

NonDecreasing(list) == \A i \in 1..(Len(list) - 1) : list[i].offset <= list[i + 1].offset

RespectsAlign(list) ==
  \A i \in 1..Len(list) :
    list[i].offset % (IF list[i].ty[1].align > 1 THEN list[i].ty[1].align ELSE 1) = 0

\* Some variable of the list was moved up past the end of its predecessor.
Padded(list) ==
  \E i \in 1..(Len(list) - 1) : list[i + 1].offset > list[i].offset + list[i].ty[1].size

\* C8: after the layout pass, in the global variable list and in every
\* function's locals list, the offsets in list order are non-decreasing and
\* every offset is a multiple of max(ty.align, 1).
C8_LayoutMonotoneAligned ==
  pc # "start" =>
    /\ NonDecreasing(GlobalVars(prog)) /\ RespectsAlign(GlobalVars(prog))
    /\ \A i \in 1..Len(prog) :
         prog[i].is_function =>
           NonDecreasing(prog[i].locals) /\ RespectsAlign(prog[i].locals)

\* A laid-out program in which alignment forced padding among the globals and
\* among the locals of a function.
C8_Witness ==
  /\ pc = "done1"
  /\ Padded(GlobalVars(prog))
  /\ \E i \in 1..Len(prog) : prog[i].is_function /\ Padded(prog[i].locals)

\* C9: a second run of codegen_wasm, started from the static state and the
\* offsets / stack sizes the first run left, writes the same output as the
\* first, and the layout pass leaves the laid-out program as it is.
C9_SecondRunIdentical ==
  /\ pc = "done2" => out = out1
  /\ pc \in {"done1", "done2"} => layout(prog) = prog

\* Both runs happened on a program with variables at nonzero offsets, a data
\* segment and a function with a nonempty frame.
C9_Witness ==
  /\ pc = "done2"
  /\ current_fn = "main"
  /\ \E i \in 1..Len(prog) : ~prog[i].is_function /\ prog[i].offset > 0
  /\ \E i \in 1..Len(prog) :
       /\ prog[i].is_function /\ prog[i].stack_size > 0
       /\ \E j \in 1..Len(prog[i].locals) : prog[i].locals[j].offset > 0
  /\ \E i \in 1..Len(out) : out[i].fmt = "  (data (i32.const %d) \""

\* The type of the constant a chunk pushes ("none" when it is no zero constant).
ZeroConstType(c) ==
  CASE c.fmt = "(i32.const 0)" -> "i32"
    [] c.fmt = "(%s.const 0) ;; implicit return" -> c.s[1]
    [] OTHER -> "none"

ReturnBlockFmts == {"(block $__return (result %s)", "(block $__return"}

\* The chunk that opened the $__return block closed at chunk i.
ReturnBlockOpen(o, i) ==
  o[CHOOSE j \in 1..i : /\ o[j].fmt \in ReturnBlockFmts
                        /\ \A k \in (j + 1)..i : o[k].fmt \notin ReturnBlockFmts]

\* C7: in every emitted function whose return type is not void, the default
\* return value at the end of the $__return block is a zero constant of the
\* block's declared result type.
C7_DefaultReturnTyped ==
  pc = "done1" =>
    \A i \in 2..Len(out) :
      (/\ out[i].fmt = ") ;; end block $__return"
       /\ ReturnBlockOpen(out, i).fmt = "(block $__return (result %s)")
      => ZeroConstType(out[i - 1]) = ReturnBlockOpen(out, i).s[1]

RECURSIVE HasKind(_, _)
HasKind(ns, kinds) ==
  \E i \in 1..Len(ns) :
    \/ ns[i].kind \in kinds
    \/ HasKind(ns[i].lhs \o ns[i].rhs \o ns[i].cond \o ns[i].then \o ns[i].els
               \o ns[i].init \o ns[i].inc \o ns[i].body \o ns[i].args, kinds)

\* C10: when a node of a kind listed as unsupported in the core reaches the
\* generator, the run does not end in a fatal error.
C10_UnsupportedKindsStubbed ==
  (/\ pc # "start"
   /\ \E i \in 1..Len(prog) : Emitted(prog[i]) /\ HasKind(prog[i].body, UnsupportedKinds))
  => pc # "fatal"

----------------------------------------------------------------------------
(* A validator for the emitted instruction sequence: the operand stack holds *)
(* value types, the control stack the open blocks (the typing rules of the  *)
(* wasm 1.0 validation algorithm).                                          *)

Last(s) == s[Len(s)]
Front(s) == SubSeq(s, 1, Len(s) - 1)

\* Validator state: [stack, ctl, err, mism]; err names a structural error
\* (operand-stack underflow, unbalanced block), mism lists operand type mismatches.
VPop(st, t) ==
  IF st.err # "" THEN st
  ELSE IF Len(st.stack) = Last(st.ctl).height
  THEN (IF Last(st.ctl).unreach THEN st ELSE [st EXCEPT !.err = "underflow"])
  ELSE [st EXCEPT !.stack = Front(@),
                  !.mism = IF t = "any" \/ Last(st.stack) = t THEN @
                           ELSE Append(@, [want |-> t, got |-> Last(st.stack)])]

VPush(st, t) == IF st.err # "" THEN st ELSE [st EXCEPT !.stack = Append(@, t)]

RECURSIVE VPopAll(_, _)
VPopAll(st, types) ==
  IF types = <<>> THEN st ELSE VPopAll(VPop(st, Last(types)), Front(types))

RECURSIVE VPushAll(_, _)
VPushAll(st, types) ==
  IF types = <<>> THEN st ELSE VPushAll(VPush(st, Head(types)), Tail(types))

VFrame(kind, label, t, height) ==
  [kind |-> kind, label |-> label, rt |-> IF t = "" THEN <<>> ELSE <<t>>,
   height |-> height, unreach |-> FALSE]

\* The rest of the current block is unreachable: its stack is polymorphic.
VUnreachable(st) ==
  IF st.err # "" THEN st
  ELSE [st EXCEPT !.stack = SubSeq(@, 1, Last(st.ctl).height),
                  !.ctl[Len(st.ctl)].unreach = TRUE]

HasLabel(ctl, label) == \E i \in 1..Len(ctl) : ctl[i].label = label

\* The innermost open frame carrying the label.
LabelFrame(ctl, label) ==
  ctl[CHOOSE i \in 1..Len(ctl) :
        ctl[i].label = label /\ \A j \in (i + 1)..Len(ctl) : ctl[j].label # label]

\* The operand types a branch to the frame carries.
LabelTypes(fr) == IF fr.kind = "loop" THEN <<>> ELSE fr.rt

\* Types of the locals every function declares, and of its parameters.
LocalType(name, ptypes) ==
  CASE name \in {"__bp", "__tmp_i32"} -> "i32"
    [] name = "__tmp_f32" -> "f32"
    [] name = "__tmp_f64" -> "f64"
    [] OTHER -> ptypes[CHOOSE i \in 1..Len(ptypes) : ptypes[i].name = name].t

IsFunc(p, name) == \E i \in 1..Len(p) : Emitted(p[i]) /\ p[i].name = name
FuncNamed(p, name) == p[CHOOSE i \in 1..Len(p) : Emitted(p[i]) /\ p[i].name = name]
ParamTypes(fn) == [i \in 1..Len(params(fn)) |-> wasm_type(params(fn)[i].ty)]
ResultTypes(fn) == IF has_return(fn) THEN <<wasm_type(fn.ty[1].return_ty)>> ELSE <<>>

VEnd(st) ==
  IF Len(st.ctl) = 1 THEN [st EXCEPT !.err = "unbalanced"]
  ELSE IF VPopAll(st, Last(st.ctl).rt).err # "" THEN VPopAll(st, Last(st.ctl).rt)
  ELSE IF Len(VPopAll(st, Last(st.ctl).rt).stack) # Last(st.ctl).height
  THEN [st EXCEPT !.err = "height"]
  ELSE VPushAll([VPopAll(st, Last(st.ctl).rt) EXCEPT !.ctl = Front(@)], Last(st.ctl).rt)

VElse(st) ==
  IF VPopAll(st, Last(st.ctl).rt).err # "" THEN VPopAll(st, Last(st.ctl).rt)
  ELSE IF Len(VPopAll(st, Last(st.ctl).rt).stack) # Last(st.ctl).height
  THEN [st EXCEPT !.err = "height"]
  ELSE [VPopAll(st, Last(st.ctl).rt) EXCEPT !.ctl[Len(st.ctl)].kind = "else",
                                            !.ctl[Len(st.ctl)].unreach = FALSE]

\* The effect of one instruction on the validator state.
VStep(st, i, p, ptypes) ==
  CASE i.op = "const" -> VPush(st, i.t)
    [] i.op = "local.get" -> VPush(st, LocalType(i.s, ptypes))
    [] i.op = "local.set" -> VPop(st, LocalType(i.s, ptypes))
    [] i.op = "global.get" -> VPush(st, "i32")
    [] i.op = "global.set" -> VPop(st, "i32")
    [] i.op = "load" -> VPush(VPop(st, "i32"), i.t)
    [] i.op = "store" -> VPop(VPop(st, i.t), "i32")
    [] i.op = "drop" -> VPop(st, "any")
    [] i.op = "binop" -> VPush(VPop(VPop(st, i.t), i.t), i.t)
    [] i.op = "relop" -> VPush(VPop(VPop(st, i.t), i.t), "i32")
    [] i.op = "eqz" -> VPush(VPop(st, "i32"), "i32")
    [] i.op = "unop" -> VPush(VPop(st, i.t), i.t)
    [] i.op = "cvt" -> VPush(VPop(st, i.s), i.t)
    [] i.op = "memory.fill" -> VPop(VPop(VPop(st, "i32"), "i32"), "i32")
    [] i.op = "call" ->
         IF IsFunc(p, i.s)
         THEN VPushAll(VPopAll(st, ParamTypes(FuncNamed(p, i.s))), ResultTypes(FuncNamed(p, i.s)))
         ELSE [st EXCEPT !.err = "unknown function"]
    [] i.op \in {"block", "loop"} ->
         [st EXCEPT !.ctl = Append(@, VFrame(i.op, i.s, i.t, Len(st.stack)))]
    [] i.op = "if" ->
         IF VPop(st, "i32").err # "" THEN VPop(st, "i32")
         ELSE [VPop(st, "i32") EXCEPT
                 !.ctl = Append(@, VFrame("if", "", i.t, Len(VPop(st, "i32").stack)))]
    [] i.op = "else" -> VElse(st)
    [] i.op = "end" -> VEnd(st)
    [] i.op = "br" ->
         IF HasLabel(st.ctl, i.s)
         THEN VUnreachable(VPopAll(st, LabelTypes(LabelFrame(st.ctl, i.s))))
         ELSE [st EXCEPT !.err = "unknown label"]
    [] i.op = "br_if" ->
         IF HasLabel(st.ctl, i.s)
         THEN VPushAll(VPopAll(VPop(st, "i32"), LabelTypes(LabelFrame(st.ctl, i.s))),
                       LabelTypes(LabelFrame(st.ctl, i.s)))
         ELSE [st EXCEPT !.err = "unknown label"]
    [] i.op = "fatal" -> [st EXCEPT !.err = "fatal"]

----------------------------------------------------------------------------
(* Node-level runs: one expression or statement of the function `host` is  *)
(* lowered by gen_expr / gen_stmt and the emitted instructions are validated *)

\* The translation unit around the subject:
\*   int g; int f(int a); void vf(void); float ff(void);
\*   int host(void) { int x; char c; short s; float fl; double d; long l8 (8 bytes);
\*                    struct (12 bytes) st; char arr[3]; int *p; ... subject ... }
\* host returns int, so every return statement in it carries a value.
HostLocals ==
  <<Var("x", ty_int, TRUE), Var("c", ty_char, TRUE), Var("s", ty_short, TRUE),
    Var("fl", ty_float, TRUE), Var("d", ty_double, TRUE), Var("l8", ty_long8, TRUE),
    Var("st", ty_struct12, TRUE), Var("arr", ty_arr3, TRUE), Var("p", ty_ptr, TRUE)>>

Unit ==
  <<Var("g", ty_int, FALSE),
    Func("f", ty_int, <<Var("a", ty_int, TRUE)>>, 1, <<Block(<<Return(LVar("a", ty_int))>>)>>),
    Func("vf", ty_void, <<>>, 0, <<Block(<<>>)>>),
    Func("ff", ty_float, <<>>, 0, <<Block(<<Return(FNum(1))>>)>>),
    Func("host", ty_int, HostLocals, 0, <<Block(<<>>)>>)>>

X == LVar("x", ty_int)
FL == LVar("fl", ty_float)
DV == LVar("d", ty_double)
L8 == LVar("l8", ty_long8)
PV == LVar("p", ty_ptr)
STV == LVar("st", ty_struct12)
DNum(v) == [Node("ND_NUM", ty_double) EXCEPT !.fval = v]
LNum(v) == [Node("ND_NUM", ty_long8) EXCEPT !.val = v]
Assign(ty, a, b) == Binary("ND_ASSIGN", ty, a, b)
MemZero(name) == [Node("ND_MEMZERO", <<>>) EXCEPT !.var = VarRef(name, TRUE)]
Call(fname, ret, args) ==
  [Node("ND_FUNCALL", ret) EXCEPT !.lhs = <<GVar(fname, FuncTy(ret))>>, !.args = args]
\* A call through a function pointer: the callee is no ND_VAR node.
ICall(ret, args) ==
  [Node("ND_FUNCALL", ret) EXCEPT !.lhs = <<Unary("ND_DEREF", FuncTy(ret), PV)>>, !.args = args]
Cond(ty, c, a, b) == [Node("ND_COND", ty) EXCEPT !.cond = <<c>>, !.then = <<a>>, !.els = b]
StmtExprNode(ty, body) == [Node("ND_STMT_EXPR", ty) EXCEPT !.body = body]
If(c, a, b) == [Node("ND_IF", <<>>) EXCEPT !.cond = <<c>>, !.then = <<a>>, !.els = b]
For(init, c, inc, body, id) ==
  [Node("ND_FOR", <<>>) EXCEPT !.init = init, !.cond = c, !.inc = inc, !.then = <<body>>,
                               !.brk_label = "brk" \o id, !.cont_label = "cont" \o id]
Do(body, c, id) ==
  [Node("ND_DO", <<>>) EXCEPT !.then = <<body>>, !.cond = <<c>>,
                              !.brk_label = "brk" \o id, !.cont_label = "cont" \o id]
Goto(label) == [Node("ND_GOTO", <<>>) EXCEPT !.unique_label = label]
Case(v, body) == [Node("ND_CASE", <<>>) EXCEPT !.begin = v, !.lhs = <<body>>]
\* case_next lists the begin values of the ND_CASE nodes of the body, in chain order.
Switch(c, cases, body, id) ==
  [Node("ND_SWITCH", <<>>) EXCEPT !.cond = <<c>>, !.case_next = cases, !.then = <<body>>,
                                  !.brk_label = "brk" \o id]
Label(name, body) == [Node("ND_LABEL", <<>>) EXCEPT !.label = name, !.lhs = <<body>>]

ScalarTypes ==
  {ty_void, ty_bool, ty_char, ty_uchar, ty_short, ty_ushort, ty_int, ty_uint,
   ty_long4, ty_long8, ty_float, ty_double, ty_ptr}

IntBinKinds ==
  {"ND_ADD", "ND_SUB", "ND_MUL", "ND_DIV", "ND_MOD", "ND_BITAND", "ND_BITOR", "ND_BITXOR",
   "ND_SHL", "ND_SHR", "ND_EQ", "ND_NE", "ND_LT", "ND_LE"}
FloatArithKinds == {"ND_ADD", "ND_SUB", "ND_MUL", "ND_DIV"}
RelKinds == {"ND_EQ", "ND_NE", "ND_LT", "ND_LE"}

LeafExprs ==
  {Num(1), FNum(2), DNum(2), LNum(5), Node("ND_NULL_EXPR", <<>>), MemZero("arr"),
   X, FL, DV, L8, PV, STV, LVar("c", ty_char), LVar("c", ty_uchar), LVar("s", ty_short),
   LVar("s", ty_ushort), LVar("arr", ty_arr3), GVar("g", ty_int)}

UnaryExprs ==
  {Unary("ND_NEG", ty_int, X), Unary("ND_NEG", ty_float, FL), Unary("ND_NEG", ty_double, DV),
   Unary("ND_NOT", ty_int, X), Unary("ND_BITNOT", ty_int, X),
   Unary("ND_ADDR", ty_ptr, X), Unary("ND_ADDR", ty_ptr, GVar("g", ty_int)),
   Unary("ND_DEREF", ty_int, PV), Unary("ND_DEREF", ty_float, PV),
   [Unary("ND_MEMBER", ty_int, STV) EXCEPT !.member_offset = 4],
   [Unary("ND_MEMBER", ty_float, STV) EXCEPT !.member_offset = 8]}
  \cup {Unary("ND_CAST", to, from) : to \in ScalarTypes, from \in {X, FL, DV, L8, LVar("c", ty_uchar)}}

BinaryExprs ==
  {Binary(k, ty_int, X, Num(2)) : k \in IntBinKinds}
  \cup {Binary(k, ty_uint, Unary("ND_CAST", ty_uint, X), Num(2)) : k \in {"ND_DIV", "ND_MOD", "ND_SHR"}}
  \cup {Binary(k, ty_float, FL, FNum(2)) : k \in FloatArithKinds}
  \cup {Binary(k, ty_double, DV, DNum(2)) : k \in FloatArithKinds}
  \cup {Binary(k, ty_int, FL, FNum(2)) : k \in RelKinds}
  \cup {Binary("ND_ADD", ty_long8, L8, LNum(1))}
  \cup {Assign(ty_int, X, Num(3)), Assign(ty_float, FL, FNum(3)), Assign(ty_double, DV, DNum(3)),
        Assign(ty_char, LVar("c", ty_char), Num(3)), Assign(ty_long8, L8, LNum(3)),
        Assign(ty_struct12, STV, STV),
        Binary("ND_COMMA", ty_int, X, Num(2)),
        Binary("ND_COMMA", ty_int, MemZero("arr"), Assign(ty_int, X, Num(3))),
        Binary("ND_LOGAND", ty_int, X, Num(2)), Binary("ND_LOGOR", ty_int, X, Num(2))}

CallExprs ==
  {Call("f", ty_int, <<Num(1)>>), Call("vf", ty_void, <<>>), Call("ff", ty_float, <<>>),
   ICall(ty_int, <<>>), ICall(ty_int, <<Num(1)>>), ICall(ty_int, <<Num(1), Num(2)>>),
   ICall(ty_float, <<Num(1)>>), ICall(ty_void, <<Num(1)>>)}

OtherExprs ==
  {Cond(ty_int, X, Num(1), <<Num(2)>>), Cond(ty_float, X, FNum(1), <<FNum(2)>>),
   Cond(ty_float, X, FNum(1), <<>>), Cond(ty_int, X, Num(1), <<>>),
   Cond(ty_void, X, Call("vf", ty_void, <<>>), <<Call("vf", ty_void, <<>>)>>),
   StmtExprNode(ty_int, <<ExprStmt(Assign(ty_int, X, Num(1))), ExprStmt(X)>>),
   StmtExprNode(ty_int, <<ExprStmt(X), Block(<<>>)>>),
   StmtExprNode(ty_float, <<ExprStmt(FL)>>)}

Exprs == LeafExprs \cup UnaryExprs \cup BinaryExprs \cup CallExprs \cup OtherExprs

SimpleStmts ==
  {ExprStmt(e) : e \in Exprs}
  \cup {Return(Num(1)), Block(<<>>), Goto("L1"),
        Block(<<ExprStmt(X), Return(X)>>)}

IncExprs == {Assign(ty_int, X, Binary("ND_ADD", ty_int, X, Num(1))), Call("vf", ty_void, <<>>),
             Call("f", ty_int, <<Num(1)>>), Unary("ND_CAST", ty_void, X)}

BodyStmts == {ExprStmt(Assign(ty_int, X, Num(1))), Return(X), Goto("brk1"), Goto("cont1"),
              ExprStmt(Call("vf", ty_void, <<>>)), ExprStmt(Unary("ND_CAST", ty_void, X))}

CompoundStmts ==
  {If(X, b, e) : b \in BodyStmts, e \in {<<>>, <<Return(Num(2))>>, <<ExprStmt(X)>>}}
  \cup {For(i, c, inc, b, "1") :
          i \in {<<>>, <<ExprStmt(Assign(ty_int, X, Num(0)))>>},
          c \in {<<>>, <<Binary("ND_LT", ty_int, X, Num(3))>>},
          inc \in {<<>>} \cup {<<e>> : e \in IncExprs},
          b \in BodyStmts}
  \cup {Do(b, X, "1") : b \in BodyStmts}
  \cup {Switch(X, cs, Block(<<Case(1, b), Case(2, ExprStmt(X))>>), "1") :
          cs \in {<<>>, <<1>>, <<2, 1>>}, b \in BodyStmts}
  \cup {Case(1, b) : b \in BodyStmts}
  \cup {Label("L1", b) : b \in BodyStmts}

Subjects ==
  {[mode |-> "expr", node |-> e] : e \in Exprs}
  \cup {[mode |-> "stmt", node |-> s] : s \in SimpleStmts \cup CompoundStmts}

HostEnv(p) == [locals |-> FuncNamed(p, "host").locals, globals |-> p]

\* What gen_expr / gen_stmt writes for the subject, up to a fatal error.
Lowered(sub, p) ==
  UntilFatal(IF sub.mode = "expr" THEN gen_expr(<<sub.node>>, 3, HostEnv(p))
             ELSE gen_stmt(<<sub.node>>, 3, HostEnv(p)))

\* The frame of the enclosing `(block $__return (result i32)` of host.
HostFrame == [kind |-> "block", label |-> "__return", rt |-> <<"i32">>,
              height |-> 0, unreach |-> FALSE]

InitNode ==
  /\ prog = layout(Unit)
  /\ subject \in Subjects
  /\ out = <<>> /\ out1 = <<>>
  /\ indent_level = 3 /\ wasm_label_count = 0 /\ current_fn = "host"
  /\ pc = "start"
  /\ vcode = <<>> /\ vip = 0 /\ vstack = <<>> /\ vctl = <<HostFrame>> /\ verr = ""
  /\ mem = <<>> /\ glob_sp = 0 /\ locs = <<>> /\ frames = <<>> /\ trace = <<>> /\ steps = 0
  /\ heap = <<>> /\ dstack = <<>>

\* gen_expr(subject) or gen_stmt(subject) runs; its output is read as instructions.
Lower ==
  /\ pc = "start"
  /\ out' = Lowered(subject, prog)
  /\ vcode' = Decode(out', 1, <<>>)
  /\ vip' = 1
  /\ pc' = IF vcode' = <<>> THEN "validated" ELSE "validate"
  /\ UNCHANGED <<prog, out1, indent_level, wasm_label_count, current_fn, subject,
                 vstack, vctl, verr, mem, glob_sp, locs, frames, trace, steps,
                 heap, dstack>>

\* The validator reads one instruction.
Validate ==
  /\ pc = "validate"
  /\ \E r \in {VStep([stack |-> vstack, ctl |-> vctl, err |-> verr, mism |-> trace],
                     vcode[vip], prog, locs)} :
        /\ vstack' = r.stack
        /\ vctl' = r.ctl
        /\ verr' = r.err
        /\ trace' = r.mism
        /\ vip' = vip + 1
        /\ pc' = IF r.err # "" \/ vip + 1 > Len(vcode) THEN "validated" ELSE "validate"
  /\ UNCHANGED <<prog, out, out1, indent_level, wasm_label_count, current_fn, subject,
                 vcode, mem, glob_sp, locs, frames, steps, heap, dstack>>

NextNode == Lower \/ Validate

SpecNode == InitNode /\ [][NextNode]_vars

IsExpr == subject # <<>> /\ subject.mode = "expr"
IsStmt == subject # <<>> /\ subject.mode = "stmt"

\* The run ended without error_tok and the validator read all of its output.
Lowering == pc = "validated" /\ verr # "fatal"

\* Control can fall out of the end of the emitted sequence.
FallsThrough == ~Last(vctl).unreach

\* C1: the instruction sequence gen_expr emits for an expression it lowers
\* without a fatal error never pops below the depth it started at and leaves
\* the operand stack exactly one value deeper.
C1_ExprPushesOne ==
  (Lowering /\ IsExpr) => (verr = "" /\ Len(vctl) = 1 /\ FallsThrough /\ Len(vstack) = 1)

\* C2: the code gen_stmt emits for a statement it lowers without a fatal
\* error never pops a missing value and leaves the operand-stack depth
\* unchanged on every path that falls through.
C2_StmtLeavesDepth ==
  (Lowering /\ IsStmt) => (verr = "" /\ Len(vctl) = 1 /\ (FallsThrough => Len(vstack) = 0))

\* C3: the single value gen_expr leaves on the operand stack has the wasm
\* type wasm_type(node.ty).
C3_ExprValueTyped ==
  (Lowering /\ IsExpr) =>
    (verr = "" /\ Len(vstack) = 1 /\ vstack[1] = wasm_type(subject.node.ty))

----------------------------------------------------------------------------
(* Running an emitted module: the instructions each function's text holds  *)
(* are executed one at a time on i32 values.                               *)

MaxSteps == 600

\* The chunks between "(func $name" and ") ;; end func $name".
FuncStart(o, name) == CHOOSE i \in 1..Len(o) : o[i].fmt = "  (func $%s" /\ o[i].s[1] = name
FuncEnd(o, name) == CHOOSE i \in 1..Len(o) : o[i].fmt = ") ;; end func $%s" /\ o[i].s[1] = name
FuncText(o, name) == SubSeq(o, FuncStart(o, name), FuncEnd(o, name) - 1)

IsParamChunk(c) == c.fmt = " (param $p_%s %s)"
IsResultChunk(c) == c.fmt = " (result %s)"
ParamLocal(c) == "p_" \o c.s[1]

\* One function of the module: its instructions, parameter locals and result count.
ModuleFunc(o, name) ==
  [code |-> Decode(FuncText(o, name), 1, <<>>),
   params |-> [k \in 1..Len(SelectSeq(FuncText(o, name), IsParamChunk)) |->
                 ParamLocal(SelectSeq(FuncText(o, name), IsParamChunk)[k])],
   nres |-> Len(SelectSeq(FuncText(o, name), IsResultChunk))]

FuncNames(o) == {o[i].s[1] : i \in {j \in 1..Len(o) : o[j].fmt = "  (func $%s"}}

Module(o) == [name \in FuncNames(o) |-> ModuleFunc(o, name)]

\* The initial value of the global $__sp.
IsSpChunk(c) == c.fmt = "(global $__sp (mut i32) (i32.const %d))"
InitialSp(o) == SelectSeq(o, IsSpChunk)[1].n[1]

\* Openers and `end`s strictly between instructions i and j.
OpenersBetween(code, i, j) ==
  Cardinality({k \in (i + 1)..(j - 1) : code[k].op \in {"block", "loop", "if"}})
EndsBetween(code, i, j) ==
  Cardinality({k \in (i + 1)..(j - 1) : code[k].op = "end"})
Balanced(code, i, j) == OpenersBetween(code, i, j) = EndsBetween(code, i, j)

\* The `end` that closes the form opened at instruction i: the first `end`
\* after i with balanced forms in between.
MatchEnd(code, i) ==
  CHOOSE j \in (i + 1)..Len(code) :
    /\ code[j].op = "end" /\ Balanced(code, i, j)
    /\ \A k \in (i + 1)..(j - 1) : ~(code[k].op = "end" /\ Balanced(code, i, k))

\* The `else` of the `if` opened at instruction i, 0 when it has none.
MatchElse(code, i) ==
  IF \E j \in (i + 1)..(MatchEnd(code, i) - 1) : code[j].op = "else" /\ Balanced(code, i, j)
  THEN CHOOSE j \in (i + 1)..(MatchEnd(code, i) - 1) :
         code[j].op = "else" /\ Balanced(code, i, j)
  ELSE 0

\* Linear memory starts zeroed; only 4-byte accesses are executed.
MemRead(m, a) == IF a \in DOMAIN m THEN m[a] ELSE 0
MemWrite(m, a, v) == [x \in DOMAIN m \cup {a} |-> IF x = a THEN v ELSE m[x]]

\* The state of the running function: [ip, stack, ctl, locs, mem, sp, err].
XTrap(x, why) == [x EXCEPT !.err = why]
XNeeds(x, k) == Len(x.stack) >= k
XTop(x, k) == x.stack[Len(x.stack) - k]
XDrop(x, k) == SubSeq(x.stack, 1, Len(x.stack) - k)
XNext(x, stack) == [x EXCEPT !.stack = stack, !.ip = @ + 1]

XFrame(kind, label, height, cont, arity) ==
  [kind |-> kind, label |-> label, height |-> height, cont |-> cont, arity |-> arity]

\* A taken branch to the control frame at index k: a loop is re-entered at
\* its head, any other form is left, carrying its result values.
XBranch(x, k) ==
  IF x.ctl[k].kind = "loop"
  THEN [x EXCEPT !.ctl = SubSeq(@, 1, k),
                 !.stack = SubSeq(@, 1, x.ctl[k].height),
                 !.ip = x.ctl[k].cont]
  ELSE IF ~XNeeds(x, x.ctl[k].arity) THEN XTrap(x, "underflow")
  ELSE [x EXCEPT !.ctl = SubSeq(@, 1, k - 1),
                 !.stack = SubSeq(@, 1, x.ctl[k].height)
                           \o SubSeq(@, Len(@) - x.ctl[k].arity + 1, Len(@)),
                 !.ip = x.ctl[k].cont,
                 !.locs.ret_depth = IF x.ctl[k].label = "__return" THEN Len(x.ctl) ELSE @]

XLabelIndex(ctl, label) ==
  CHOOSE i \in 1..Len(ctl) :
    ctl[i].label = label /\ \A j \in (i + 1)..Len(ctl) : ctl[j].label # label

XBinop(op, a, b) ==
  CASE op = "add" -> a + b
    [] op = "sub" -> a - b
    [] op = "mul" -> a * b

XRelop(op, a, b) ==
  CASE op = "eq" -> IF a = b THEN 1 ELSE 0
    [] op = "ne" -> IF a # b THEN 1 ELSE 0
    [] op = "lt_s" -> IF a < b THEN 1 ELSE 0
    [] op = "le_s" -> IF a <= b THEN 1 ELSE 0

\* The effect of instruction i of `code` (not a call) on the running function.
XStep(x, i, code) ==
  CASE i.op = "const" /\ i.t = "i32" -> XNext(x, Append(x.stack, i.n))
    [] i.op = "local.get" /\ i.s \in DOMAIN x.locs.val ->
         XNext(x, Append(x.stack, x.locs.val[i.s]))
    [] i.op = "local.set" /\ i.s \in DOMAIN x.locs.val ->
         IF ~XNeeds(x, 1) THEN XTrap(x, "underflow")
         ELSE [XNext(x, XDrop(x, 1)) EXCEPT !.locs.val[i.s] = XTop(x, 0)]
    [] i.op = "global.get" -> XNext(x, Append(x.stack, x.sp))
    [] i.op = "global.set" ->
         IF ~XNeeds(x, 1) THEN XTrap(x, "underflow")
         ELSE [XNext(x, XDrop(x, 1)) EXCEPT !.sp = XTop(x, 0)]
    [] i.op = "load" /\ i.t = "i32" /\ i.n = 4 ->
         IF ~XNeeds(x, 1) THEN XTrap(x, "underflow")
         ELSE XNext(x, Append(XDrop(x, 1), MemRead(x.mem, XTop(x, 0))))
    [] i.op = "store" /\ i.t = "i32" /\ i.n = 4 ->
         IF ~XNeeds(x, 2) THEN XTrap(x, "underflow")
         ELSE [XNext(x, XDrop(x, 2)) EXCEPT !.mem = MemWrite(@, XTop(x, 1), XTop(x, 0))]
    [] i.op = "drop" ->
         IF ~XNeeds(x, 1) THEN XTrap(x, "underflow") ELSE XNext(x, XDrop(x, 1))
    [] i.op = "binop" /\ i.t = "i32" /\ i.s \in {"add", "sub", "mul"} ->
         IF ~XNeeds(x, 2) THEN XTrap(x, "underflow")
         ELSE XNext(x, Append(XDrop(x, 2), Int32(XBinop(i.s, XTop(x, 1), XTop(x, 0)))))
    [] i.op = "relop" /\ i.t = "i32" /\ i.s \in {"eq", "ne", "lt_s", "le_s"} ->
         IF ~XNeeds(x, 2) THEN XTrap(x, "underflow")
         ELSE XNext(x, Append(XDrop(x, 2), XRelop(i.s, XTop(x, 1), XTop(x, 0))))
    [] i.op = "eqz" ->
         IF ~XNeeds(x, 1) THEN XTrap(x, "underflow")
         ELSE XNext(x, Append(XDrop(x, 1), IF XTop(x, 0) = 0 THEN 1 ELSE 0))
    [] i.op = "block" ->
         [x EXCEPT !.ip = @ + 1,
                   !.ctl = Append(@, XFrame("block", i.s, Len(x.stack),
                                            MatchEnd(code, x.ip) + 1,
                                            IF i.t = "" THEN 0 ELSE 1))]
    [] i.op = "loop" ->
         [x EXCEPT !.ip = @ + 1,
                   !.ctl = Append(@, XFrame("loop", i.s, Len(x.stack), x.ip + 1, 0))]
    [] i.op = "if" ->
         IF ~XNeeds(x, 1) THEN XTrap(x, "underflow")
         ELSE IF XTop(x, 0) # 0
         THEN [x EXCEPT !.stack = XDrop(x, 1), !.ip = @ + 1,
                        !.ctl = Append(@, XFrame("if", "", Len(x.stack) - 1,
                                                 MatchEnd(code, x.ip) + 1,
                                                 IF i.t = "" THEN 0 ELSE 1))]
         ELSE IF MatchElse(code, x.ip) # 0
         THEN [x EXCEPT !.stack = XDrop(x, 1), !.ip = MatchElse(code, x.ip) + 1,
                        !.ctl = Append(@, XFrame("if", "", Len(x.stack) - 1,
                                                 MatchEnd(code, x.ip) + 1,
                                                 IF i.t = "" THEN 0 ELSE 1))]
         ELSE [x EXCEPT !.stack = XDrop(x, 1), !.ip = MatchEnd(code, x.ip) + 1]
    [] i.op = "else" ->      \* the end of a then-branch that ran
         IF x.ctl = <<>> THEN XTrap(x, "unbalanced") ELSE XBranch(x, Len(x.ctl))
    [] i.op = "end" ->
         IF x.ctl = <<>> THEN XTrap(x, "unbalanced")
         ELSE [x EXCEPT !.ip = @ + 1, !.ctl = Front(@)]
    [] i.op = "br" ->
         IF ~HasLabel(x.ctl, i.s) THEN XTrap(x, "unknown label")
         ELSE XBranch(x, XLabelIndex(x.ctl, i.s))
    [] i.op = "br_if" ->
         IF ~HasLabel(x.ctl, i.s) THEN XTrap(x, "unknown label")
         ELSE IF ~XNeeds(x, 1) THEN XTrap(x, "underflow")
         ELSE IF XTop(x, 0) # 0
         THEN XBranch([x EXCEPT !.stack = XDrop(x, 1)], XLabelIndex(x.ctl, i.s))
         ELSE XNext(x, XDrop(x, 1))
    [] OTHER -> XTrap(x, "unsupported")

\* The locals of a fresh activation of fn: $__bp, $__tmp_i32 and the parameters.
XLocals(name, fn, args, sp) ==
  [fn |-> name, sp_in |-> sp, ret_depth |-> 0,
   val |-> [n \in {"__bp", "__tmp_i32"} \cup {fn.params[k] : k \in 1..Len(fn.params)} |->
              IF \E k \in 1..Len(fn.params) : fn.params[k] = n
              THEN args[CHOOSE k \in 1..Len(fn.params) : fn.params[k] = n]
              ELSE 0]]

Running == [ip |-> vip, stack |-> vstack, ctl |-> vctl, locs |-> locs,
            mem |-> mem, sp |-> glob_sp, err |-> verr]

----------------------------------------------------------------------------
(* Whole programs that are compiled and then run from _start               *)

MaxArg == 3

IV(name) == LVar(name, ty_int)
IntVar(name) == Var(name, ty_int, TRUE)
Add(a, b) == Binary("ND_ADD", ty_int, a, b)
Lt(a, b) == Binary("ND_LT", ty_int, a, b)
Eq(a, b) == Binary("ND_EQ", ty_int, a, b)
Set(name, e) == ExprStmt(Assign(ty_int, IV(name), e))
Incr(name) == Assign(ty_int, IV(name), Add(IV(name), Num(1)))
CallInt(fname, a) == Call(fname, ty_int, <<a>>)

\* int leaf(int a) { int i; i = 0;
\*   for (; i < 3; i = i + 1) { if (i == a) { return i + 10; } }
\*   return 99; }
leaf_fn ==
  Func("leaf", ty_int, <<IntVar("i"), IntVar("a")>>, 1,
       <<Block(<<Set("i", Num(0)),
                 For(<<>>, <<Lt(IV("i"), Num(3))>>, <<Incr("i")>>,
                     Block(<<If(Eq(IV("i"), IV("a")),
                                Block(<<Return(Add(IV("i"), Num(10)))>>), <<>>)>>), "1"),
                 Return(Num(99))>>)>>)

\* int dol(int a) { int k; k = a;
\*   do { if (k == 1) return 7; k = k + 1; } while (k < 3);
\*   return k; }
dol_fn ==
  Func("dol", ty_int, <<IntVar("k"), IntVar("a")>>, 1,
       <<Block(<<Set("k", IV("a")),
                 Do(Block(<<If(Eq(IV("k"), Num(1)), Return(Num(7)), <<>>),
                            Set("k", Add(IV("k"), Num(1)))>>),
                    Lt(IV("k"), Num(3)), "2"),
                 Return(IV("k"))>>)>>)

\* int sw(int a) { switch (a) { case 1: return 11; } return 5; }
sw_fn ==
  Func("sw", ty_int, <<IntVar("a")>>, 1,
       <<Block(<<Switch(IV("a"), <<1>>, Block(<<Case(1, Return(Num(11)))>>), "3"),
                 Return(Num(5))>>)>>)

\* void vn(int a) { int t; if (a == 0) { return; } t = 1; }
vn_fn ==
  Func("vn", ty_void, <<IntVar("t"), IntVar("a")>>, 1,
       <<Block(<<If(Eq(IV("a"), Num(0)), Block(<<Node("ND_RETURN", <<>>)>>), <<>>),
                 Set("t", Num(1))>>)>>)

\* int mid(int a) { return leaf(a) + 1; }
mid_fn ==
  Func("mid", ty_int, <<IntVar("a")>>, 1,
       <<Block(<<Return(Add(CallInt("leaf", IV("a")), Num(1)))>>)>>)

\* int outer(int a) { int r; r = mid(a) + dol(a); vn(a); return r + sw(a); }
outer_fn ==
  Func("outer", ty_int, <<IntVar("r"), IntVar("a")>>, 1,
       <<Block(<<Set("r", Add(CallInt("mid", IV("a")), CallInt("dol", IV("a")))),
                 ExprStmt(Call("vn", ty_void, <<IV("a")>>)),
                 Return(Add(IV("r"), CallInt("sw", IV("a"))))>>)>>)

\* int main() { int r; r = outer(A); return r; }
ReturnsProgram(a) ==
  <<leaf_fn, dol_fn, sw_fn, vn_fn, mid_fn, outer_fn,
    Func("main", ty_int, <<IntVar("r")>>, 0,
         <<Block(<<Set("r", CallInt("outer", Num(a))), Return(IV("r"))>>)>>)>>

\* What C gives for main of ReturnsProgram(a).
ReturnsValue(a) ==
  (IF a < 3 THEN a + 10 ELSE 99) + 1
  + (IF a <= 1 THEN 7 ELSE IF a = 2 THEN 3 ELSE a + 1)
  + (IF a = 1 THEN 11 ELSE 5)

MainOf(body) == <<Func("main", ty_int, <<IntVar("n"), IntVar("i")>>, 0, <<Block(body)>>)>>

\* Scenario 5, with n += i and i++ written as the assignments they stand for:
\* int main() { int n, i; n = 0; i = 0;
\*   do { if (i == 3) break; n = n + i; i = i + 1; } while (i < 5);
\*   return n; }
scenario5 ==
  MainOf(<<Set("n", Num(0)), Set("i", Num(0)),
           Do(Block(<<If(Eq(IV("i"), Num(3)), Goto("brk1"), <<>>),
                      Set("n", Add(IV("n"), IV("i"))),
                      Set("i", Add(IV("i"), Num(1)))>>),
              Lt(IV("i"), Num(5)), "1"),
           Return(IV("n"))>>)

\* int main() { int n, i; n = 0;
\*   for (i = 0; i < 5; i = i + 1) { if (i == 2) break; n = n + 1; }
\*   return n; }
break_for ==
  MainOf(<<Set("n", Num(0)),
           For(<<Set("i", Num(0))>>, <<Lt(IV("i"), Num(5))>>, <<Incr("i")>>,
               Block(<<If(Eq(IV("i"), Num(2)), Goto("brk1"), <<>>),
                       Set("n", Add(IV("n"), Num(1)))>>), "1"),
           Return(IV("n"))>>)

\* int main() { int n, i; n = 0;
\*   for (i = 0; i < 3; i = i + 1) { if (i == 1) continue; n = n + 1; }
\*   return n; }
continue_for ==
  MainOf(<<Set("n", Num(0)),
           For(<<Set("i", Num(0))>>, <<Lt(IV("i"), Num(3))>>, <<Incr("i")>>,
               Block(<<If(Eq(IV("i"), Num(1)), Goto("cont1"), <<>>),
                       Set("n", Add(IV("n"), Num(1)))>>), "1"),
           Return(IV("n"))>>)

\* int main() { int n, i; n = 0; i = 0;
\*   do { i = i + 1; if (i < 3) continue; n = n + 1; } while (i < 5);
\*   return n; }
continue_do ==
  MainOf(<<Set("n", Num(0)), Set("i", Num(0)),
           Do(Block(<<Set("i", Add(IV("i"), Num(1))),
                      If(Lt(IV("i"), Num(3)), Goto("cont1"), <<>>),
                      Set("n", Add(IV("n"), Num(1)))>>),
              Lt(IV("i"), Num(5)), "1"),
           Return(IV("n"))>>)

Reverse(s) == [i \in 1..Len(s) |-> s[Len(s) + 1 - i]]

\* case c1: case c2: ... stmt
RECURSIVE CaseChain(_, _)
CaseChain(cs, stmt) ==
  IF cs = <<>> THEN stmt ELSE Case(Head(cs), CaseChain(Tail(cs), stmt))

CaseLists == {<<>>, <<1>>, <<1, 2>>, <<1, 2, 3>>}

\* int main() { int n, i; n = 0; i = A;
\*   switch (i) { case 1: case 2: n = 7; }
\*   return n; }
\* The parser puts each case in front of the switch's case list, so case_next
\* runs from the last case label to the first.
switch_main(cs, a) ==
  MainOf(<<Set("n", Num(0)), Set("i", Num(a)),
           Switch(IV("i"), Reverse(cs), CaseChain(cs, Set("n", Num(7))), "1"),
           Return(IV("n"))>>)

\* Whether the selector value a equals the begin value of some case of cs.
Hits(cs, a) == \E k \in 1..Len(cs) : cs[k] = a

\* int main() { int n, i; n = 0; i = A;
\*   i = (i && (n = n + 1, B));          (or ||)
\*   return i * 10 + n; }
\* n counts how often the right operand ran.
logic_main(kind, a, b) ==
  MainOf(<<Set("n", Num(0)), Set("i", Num(a)),
           Set("i", Binary(kind, ty_int, IV("i"),
                           Binary("ND_COMMA", ty_int, Incr("n"), Num(b)))),
           Return(Add(Binary("ND_MUL", ty_int, IV("i"), Num(10)), IV("n")))>>)

\* What C gives for main of logic_main.
LogicValue(kind, a, b) ==
  IF kind = "ND_LOGAND"
  THEN (IF a # 0 /\ b # 0 THEN 10 ELSE 0) + (IF a # 0 THEN 1 ELSE 0)
  ELSE (IF a # 0 \/ b # 0 THEN 10 ELSE 0) + (IF a = 0 THEN 1 ELSE 0)

\* A run: the program, what it exercises and the value C gives for main.
Run(name, uses, p, expect) == [name |-> name, uses |-> uses, prog |-> p, expect |-> expect]

Runs ==
  {Run("returns", "return", ReturnsProgram(a), ReturnsValue(a)) : a \in 0..MaxArg}
  \cup {Run("scenario5", "break", scenario5, 3),
        Run("break_for", "break", break_for, 2),
        Run("continue_for", "continue", continue_for, 2),
        Run("continue_do", "continue", continue_do, 3)}
  \cup {Run(kind, "short-circuit", logic_main(kind, a, b), LogicValue(kind, a, b)) :
          kind \in {"ND_LOGAND", "ND_LOGOR"}, a \in 0..MaxArg, b \in 0..MaxArg}
  \cup {Run("switch", IF Hits(cs, a) THEN "switch hit" ELSE "switch miss", switch_main(cs, a),
            IF Hits(cs, a) THEN 7 ELSE 0) : cs \in CaseLists, a \in 0..MaxArg}

InitRun ==
  /\ \E r \in Runs :
        /\ prog = r.prog
        /\ subject = [name |-> r.name, uses |-> r.uses, expect |-> r.expect]
  /\ out = <<>> /\ out1 = <<>>
  /\ indent_level = 0 /\ wasm_label_count = 0 /\ current_fn = ""
  /\ pc = "start"
  /\ vcode = <<>> /\ vip = 0 /\ vstack = <<>> /\ vctl = <<>> /\ verr = ""
  /\ mem = <<>> /\ glob_sp = 0 /\ locs = <<>> /\ frames = <<>> /\ trace = <<>> /\ steps = 0
  /\ heap = <<>> /\ dstack = <<>>

\* codegen_wasm writes the module; it is instantiated and _start is entered.
Load ==
  /\ pc = "start"
  /\ \E r \in {codegen_wasm(prog, Statics)} :
        /\ prog' = r.prog
        /\ out' = UntilFatal(r.text)
        /\ indent_level' = r.st.indent_level
        /\ wasm_label_count' = r.st.wasm_label_count
        /\ current_fn' = r.st.current_fn
        /\ pc' = IF Fatal(r.text) THEN "fatal" ELSE "run"
  /\ vcode' = Module(out')
  /\ glob_sp' = InitialSp(out')
  /\ locs' = XLocals("main", vcode'["main"], <<>>, glob_sp')
  /\ vip' = 1
  /\ UNCHANGED <<out1, subject, vstack, vctl, verr, mem, frames, trace, steps, heap, dstack>>

Code == vcode[locs.fn].code

\* The running function executes one instruction that is not a call.
Exec ==
  /\ pc = "run" /\ steps < MaxSteps
  /\ vip <= Len(Code) /\ Code[vip].op # "call"
  /\ \E x \in {XStep(Running, Code[vip], Code)} :
        /\ vip' = x.ip /\ vstack' = x.stack /\ vctl' = x.ctl /\ locs' = x.locs
        /\ mem' = x.mem /\ glob_sp' = x.sp /\ verr' = x.err
        /\ pc' = IF x.err # "" THEN "trapped" ELSE "run"
  /\ steps' = steps + 1
  /\ UNCHANGED <<prog, out, out1, indent_level, wasm_label_count, current_fn, subject,
                 vcode, frames, trace, heap, dstack>>

\* `call $f`: the arguments are popped, the caller is suspended and f is entered.
CallFn ==
  /\ pc = "run" /\ steps < MaxSteps
  /\ vip <= Len(Code) /\ Code[vip].op = "call"
  /\ Code[vip].s \in DOMAIN vcode
  /\ Len(vstack) >= Len(vcode[Code[vip].s].params)
  /\ \E n \in {Len(vcode[Code[vip].s].params)} :
        /\ frames' = Append(frames, [ip |-> vip + 1, stack |-> SubSeq(vstack, 1, Len(vstack) - n),
                                     ctl |-> vctl, locs |-> locs])
        /\ locs' = XLocals(Code[vip].s, vcode[Code[vip].s],
                           SubSeq(vstack, Len(vstack) - n + 1, Len(vstack)), glob_sp)
  /\ vip' = 1 /\ vstack' = <<>> /\ vctl' = <<>>
  /\ steps' = steps + 1
  /\ UNCHANGED <<prog, out, out1, indent_level, wasm_label_count, current_fn, pc, subject,
                 vcode, verr, mem, glob_sp, trace, heap, dstack>>

\* The running function reaches its end: its results go to the caller.
ExitFn ==
  /\ pc = "run"
  /\ vip > Len(Code)
  /\ Len(vstack) >= vcode[locs.fn].nres
  /\ trace' = Append(trace, [fn |-> locs.fn, sp_in |-> locs.sp_in, sp_out |-> glob_sp,
                             ret_depth |-> locs.ret_depth, callers |-> Len(frames)])
  /\ \E res \in {SubSeq(vstack, Len(vstack) - vcode[locs.fn].nres + 1, Len(vstack))} :
        IF frames = <<>>
        THEN /\ pc' = "halted"
             /\ vstack' = res
             /\ UNCHANGED <<vip, vctl, locs, frames>>
        ELSE /\ pc' = "run"
             /\ vstack' = Last(frames).stack \o res
             /\ vip' = Last(frames).ip
             /\ vctl' = Last(frames).ctl
             /\ locs' = Last(frames).locs
             /\ frames' = Front(frames)
  /\ UNCHANGED <<prog, out, out1, indent_level, wasm_label_count, current_fn, subject,
                 vcode, verr, mem, glob_sp, steps, heap, dstack>>

NextRun == Load \/ Exec \/ CallFn \/ ExitFn

SpecRun == InitRun /\ [][NextRun]_vars

\* C4: at every function exit $__sp has the value it had when the function
\* was entered, whichever path was taken through the body, and once _start
\* has returned $__sp is back at its initial value.
C4_SpRestoredAtExit ==
  /\ \A k \in 1..Len(trace) : trace[k].sp_out = trace[k].sp_in
  /\ pc = "halted" => glob_sp = InitialSp(out)

\* C4 witness: _start has returned after nested calls, one of which left
\* through a return inside an if inside a for loop, two calls deep.
C4_Witness ==
  /\ pc = "halted" /\ Len(trace) >= 6
  /\ \E k \in 1..Len(trace) :
        /\ trace[k].fn = "leaf" /\ trace[k].ret_depth >= 4 /\ trace[k].callers >= 3
        /\ trace[k].sp_in < InitialSp(out)

\* C5: a break in the body of a FOR or DO loop ends the loop, so main
\* returns the value C gives (3 for the do-while of scenario 5).
C5_BreakLeavesLoop ==
  (pc = "halted" /\ subject.uses = "break") => vstack = <<subject.expect>>

\* C6: a continue in a loop body skips the rest of the body and goes on with
\* inc / cond, so main returns the value C gives.
C6_ContinueSkipsBody ==
  (pc = "halted" /\ subject.uses = "continue") => vstack = <<subject.expect>>

----------------------------------------------------------------------------
(* Diagnostic stubs (specification SpecNode)                               *)

\* The node is lowered through a stub: a call whose callee is no ND_VAR node,
\* or an assignment that stores a struct or union.
IsIndirectCall(nd) == nd.kind = "ND_FUNCALL" /\ nd.lhs[1].kind # "ND_VAR"
IsStructStore(nd) ==
  nd.kind = "ND_ASSIGN" /\ nd.ty # <<>> /\ nd.ty[1].kind \in {"TY_STRUCT", "TY_UNION"}

\* C11: the code of an expression lowered through a diagnostic stub keeps the
\* stack contract: for an indirect call with any number of arguments and for
\* a struct store it never pops a missing value and ends with exactly one
\* value, of type wasm_type of the node's type.
C11_StubsKeepContract ==
  (Lowering /\ IsExpr /\ (IsIndirectCall(subject.node) \/ IsStructStore(subject.node))) =>
    (verr = "" /\ FallsThrough /\ vstack = <<wasm_type(subject.node.ty)>>)

----------------------------------------------------------------------------
(* The JSON dumper (src/dump.c): dump_node and dump_node_list              *)
(*                                                                         *)
(* Here a Node pointer is an address into `heap` (0 is NULL), so that a    *)
(* graph can hold the same node twice.  The stream `out` holds the tokens  *)
(* written to stdout; the attributes of a node (type, line, val, name,     *)
(* label, begin/end) are not part of it.                                   *)

\* #define MAX_DEPTH 20
MAX_DEPTH == 20

MaxNest == 22     \* nesting depth of the deepest tree dumped
MaxOut == 240     \* tokens of the stream that are kept: its first MaxOut

DN(kind) ==
  [kind |-> kind, lhs |-> 0, rhs |-> 0, cond |-> 0, then |-> 0, els |-> 0, init |-> 0,
   inc |-> 0, body |-> 0, args |-> 0, cas_addr |-> 0, cas_old |-> 0, cas_new |-> 0,
   next |-> 0]

\* One call the switch of dump_node makes: dump_node_field(out, key, ptr, depth + 1)
\* or dump_node_list(out, key, ptr, depth + 1).
Field(key, ptr) == <<[key |-> key, ptr |-> ptr, list |-> FALSE]>>
List(key, ptr) == <<[key |-> key, ptr |-> ptr, list |-> TRUE]>>
\* ... guarded by `if (ptr)`.
FieldIf(key, ptr) == IF ptr # 0 THEN Field(key, ptr) ELSE <<>>

\* The calls of the switch (node->kind) of dump_node, in order.
Fields(nd) ==
  CASE nd.kind \in {"ND_NUM", "ND_VAR", "ND_GOTO", "ND_LABEL_VAL", "ND_ASM", "ND_MEMZERO",
                    "ND_VLA_PTR"} -> <<>>
    [] nd.kind = "ND_FUNCALL" -> Field("func", nd.lhs) \o List("args", nd.args)
    [] nd.kind = "ND_MEMBER" -> Field("lhs", nd.lhs)
    [] nd.kind = "ND_IF" ->
         Field("cond", nd.cond) \o Field("then", nd.then) \o FieldIf("els", nd.els)
    [] nd.kind = "ND_FOR" ->
         FieldIf("init", nd.init) \o FieldIf("cond", nd.cond) \o FieldIf("inc", nd.inc)
         \o Field("then", nd.then)
    [] nd.kind = "ND_DO" -> Field("body", nd.then) \o Field("cond", nd.cond)
    [] nd.kind = "ND_SWITCH" -> Field("cond", nd.cond) \o Field("then", nd.then)
    [] nd.kind = "ND_CASE" -> Field("body", nd.lhs)
    [] nd.kind \in {"ND_BLOCK", "ND_STMT_EXPR"} -> List("body", nd.body)
    [] nd.kind \in {"ND_RETURN", "ND_EXPR_STMT", "ND_NEG", "ND_ADDR", "ND_DEREF", "ND_NOT",
                    "ND_BITNOT", "ND_CAST"} -> FieldIf("lhs", nd.lhs)
    [] nd.kind = "ND_GOTO_EXPR" -> Field("expr", nd.lhs)
    [] nd.kind = "ND_LABEL" -> Field("body", nd.lhs)
    [] nd.kind = "ND_CAS" ->
         Field("addr", nd.cas_addr) \o Field("old", nd.cas_old) \o Field("new", nd.cas_new)
    [] nd.kind = "ND_EXCH" -> Field("lhs", nd.lhs) \o Field("rhs", nd.rhs)
    [] nd.kind = "ND_COND" ->
         Field("cond", nd.cond) \o Field("then", nd.then) \o Field("els", nd.els)
    [] OTHER -> FieldIf("lhs", nd.lhs) \o FieldIf("rhs", nd.rhs)

\* Tokens of the stream: the node at address `at`, reached at depth `depth`.
Tok(t, key, at, depth) == <<[t |-> t, key |-> key, at |-> at, depth |-> depth]>>

\* The entry of dump_node(out, node, depth): what it writes at once, and the
\* activation that stays on the stack when the node is serialised in full.
dump_node(h, node, depth) ==
  IF node = 0 THEN [text |-> Tok("null", "", 0, depth), push |-> <<>>]
  ELSE IF depth > MAX_DEPTH
  THEN [text |-> Tok("truncated", "", node, depth), push |-> <<>>]
  ELSE [text |-> Tok("{", h[node].kind, node, depth),
        push |-> <<[fn |-> "dump_node", node |-> node, depth |-> depth,
                    todo |-> Fields(h[node]), first |-> FALSE]>>]

\* dump_node_field(out, key, node, depth)
dump_node_field(h, key, node, depth) ==
  IF node # 0
  THEN [text |-> Tok("key", key, 0, depth) \o dump_node(h, node, depth).text,
        push |-> dump_node(h, node, depth).push]
  ELSE [text |-> Tok("key", key, 0, depth) \o Tok("null", "", 0, depth), push |-> <<>>]

\* The entry of dump_node_list(out, key, node, depth): the loop starts at node.
dump_node_list(key, node, depth) ==
  [text |-> Tok("key", key, 0, depth) \o Tok("[", "", 0, depth),
   push |-> <<[fn |-> "dump_node_list", node |-> node, depth |-> depth,
               todo |-> <<>>, first |-> TRUE]>>]

\* The stream after more text was written to it: what lies beyond its first
\* MaxOut tokens is not kept.
Written(s) == IF Len(s) <= MaxOut THEN s ELSE SubSeq(s, 1, MaxOut)

\* The graphs handed to the dumper, each with its root at address 1.
\* n nested unary minus signs over a number: -(-(...(1))).
Chain(n) ==
  [i \in 1..(n + 1) |-> IF i <= n THEN [DN("ND_NEG") EXCEPT !.lhs = i + 1] ELSE DN("ND_NUM")]

\* n nested blocks, each holding a number and the next block: { 1; { 1; ... } }
BlockChain(n) ==
  [k \in 1..(2 * n) |->
     IF k % 2 = 1 THEN [DN("ND_BLOCK") EXCEPT !.body = k + 1]
     ELSE [DN("ND_NUM") EXCEPT !.next = IF k < 2 * n THEN k + 1 ELSE 0]]

\* A cycle through child pointers: an `if` whose then-block holds the `if`.
ChildCycle ==
  <<[DN("ND_IF") EXCEPT !.cond = 2, !.then = 3], DN("ND_NUM"),
    [DN("ND_BLOCK") EXCEPT !.body = 1]>>

\* A cycle through a child pointer of one node: lhs points back at the node.
SelfChild == <<[DN("ND_NEG") EXCEPT !.lhs = 1]>>

\* Cycles through `next`: a block whose last statement is followed by its
\* first, and a call whose two arguments follow each other.
NextLoop ==
  <<[DN("ND_BLOCK") EXCEPT !.body = 2],
    [DN("ND_EXPR_STMT") EXCEPT !.lhs = 5, !.next = 3],
    [DN("ND_RETURN") EXCEPT !.next = 4],
    [DN("ND_NULL_EXPR") EXCEPT !.next = 2],
    DN("ND_NUM")>>
NextPair ==
  <<[DN("ND_FUNCALL") EXCEPT !.lhs = 2, !.args = 3], DN("ND_VAR"),
    [DN("ND_NUM") EXCEPT !.next = 4], [DN("ND_NUM") EXCEPT !.next = 3]>>

\* A statement of every shape, no deeper than 3.
Shallow ==
  <<[DN("ND_BLOCK") EXCEPT !.body = 2],
    [DN("ND_FOR") EXCEPT !.cond = 3, !.then = 4, !.next = 6],
    [DN("ND_LT") EXCEPT !.lhs = 5, !.rhs = 5],
    [DN("ND_EXPR_STMT") EXCEPT !.lhs = 5],
    DN("ND_NUM"),
    [DN("ND_IF") EXCEPT !.cond = 5, !.then = 7],
    DN("ND_RETURN")>>

Graph(name, shape, h) == [name |-> name, shape |-> shape, heap |-> h]

Graphs ==
  {Graph("chain", "tree", Chain(n)) : n \in {2, MAX_DEPTH, MaxNest}}
  \cup {Graph("blocks", "tree", BlockChain(n)) : n \in {2, MaxNest}}
  \cup {Graph("shallow", "tree", Shallow),
        Graph("child cycle", "child cycle", ChildCycle),
        Graph("self child", "child cycle", SelfChild),
        Graph("next loop", "next cycle", NextLoop),
        Graph("next pair", "next cycle", NextPair)}

\* State of the dumper before dump_ast reaches a function body.
InitDump ==
  /\ \E g \in Graphs :
        /\ subject = [name |-> g.name, shape |-> g.shape]
        /\ heap = g.heap
  /\ prog = <<>>
  /\ out = <<>> /\ out1 = <<>>
  /\ indent_level = 0 /\ wasm_label_count = 0 /\ current_fn = ""
  /\ pc = "start"
  /\ vcode = <<>> /\ vip = 0 /\ vstack = <<>> /\ vctl = <<>> /\ verr = ""
  /\ mem = <<>> /\ glob_sp = 0 /\ locs = <<>> /\ frames = <<>> /\ trace = <<>> /\ steps = 0
  /\ dstack = <<>>

DumpRest == <<prog, out1, indent_level, wasm_label_count, current_fn, subject, vcode, vip,
              vstack, vctl, verr, mem, glob_sp, locs, frames, trace, steps, heap>>

\* dump_ast: dump_node(out, obj->body, 0)
DumpBody ==
  /\ pc = "start"
  /\ \E r \in {dump_node(heap, 1, 0)} :
        /\ out' = Written(r.text)
        /\ dstack' = r.push
  /\ pc' = "dump"
  /\ UNCHANGED DumpRest

\* dump_node, in its switch: the next dump_node_field call.
DumpField ==
  /\ pc = "dump" /\ dstack # <<>>
  /\ Last(dstack).fn = "dump_node" /\ Last(dstack).todo # <<>>
  /\ ~Head(Last(dstack).todo).list
  /\ \E top \in {Last(dstack)} :
     \E r \in {dump_node_field(heap, Head(top.todo).key, Head(top.todo).ptr, top.depth + 1)} :
        /\ out' = Written(out \o r.text)
        /\ dstack' = Front(dstack) \o <<[top EXCEPT !.todo = Tail(@)]>> \o r.push
  /\ UNCHANGED <<pc, DumpRest>>

\* dump_node, in its switch: the next dump_node_list call.
DumpList ==
  /\ pc = "dump" /\ dstack # <<>>
  /\ Last(dstack).fn = "dump_node" /\ Last(dstack).todo # <<>>
  /\ Head(Last(dstack).todo).list
  /\ \E top \in {Last(dstack)} :
     \E r \in {dump_node_list(Head(top.todo).key, Head(top.todo).ptr, top.depth + 1)} :
        /\ out' = Written(out \o r.text)
        /\ dstack' = Front(dstack) \o <<[top EXCEPT !.todo = Tail(@)]>> \o r.push
  /\ UNCHANGED <<pc, DumpRest>>

\* dump_node_list: one turn of `for (Node *n = node; n; n = n->next)`.  The
\* element is dumped at the depth of the list; n->next is read when it returns.
DumpListElem ==
  /\ pc = "dump" /\ dstack # <<>>
  /\ Last(dstack).fn = "dump_node_list" /\ Last(dstack).node # 0
  /\ \E top \in {Last(dstack)} :
     \E r \in {dump_node(heap, top.node, top.depth)} :
        /\ out' = Written(out \o (IF top.first THEN <<>> ELSE Tok(",", "", 0, top.depth))
                        \o r.text)
        /\ dstack' = Front(dstack)
                     \o <<[top EXCEPT !.node = heap[top.node].next, !.first = FALSE]>>
                     \o r.push
  /\ UNCHANGED <<pc, DumpRest>>

\* dump_node_list: n is NULL, the loop ends and "]" is written.
DumpListEnd ==
  /\ pc = "dump" /\ dstack # <<>>
  /\ Last(dstack).fn = "dump_node_list" /\ Last(dstack).node = 0
  /\ out' = Written(out \o Tok("]", "", 0, Last(dstack).depth))
  /\ dstack' = Front(dstack)
  /\ UNCHANGED <<pc, DumpRest>>

\* dump_node: after the switch, "}" is written and the call returns.
DumpClose ==
  /\ pc = "dump" /\ dstack # <<>>
  /\ Last(dstack).fn = "dump_node" /\ Last(dstack).todo = <<>>
  /\ out' = Written(out \o Tok("}", "", Last(dstack).node, Last(dstack).depth))
  /\ dstack' = Front(dstack)
  /\ UNCHANGED <<pc, DumpRest>>

\* The outermost dump_node has returned to dump_ast.
DumpDone ==
  /\ pc = "dump" /\ dstack = <<>>
  /\ pc' = "dumped"
  /\ UNCHANGED <<out, dstack, DumpRest>>

NextDump ==
  \/ DumpBody \/ DumpField \/ DumpList \/ DumpListElem \/ DumpListEnd \/ DumpClose
  \/ DumpDone

SpecDump == InitDump /\ [][NextDump]_vars

\* The dumper is one sequential call: it keeps running while it has a step.
SpecDumpLive == SpecDump /\ WF_vars(NextDump)

\* The tokens written so far that open a fully serialised node / stand for a
\* truncated one.
FullNodes == {i \in 1..Len(out) : out[i].t = "{"}
Sentinels == {i \in 1..Len(out) : out[i].t = "truncated"}

\* C12: in the dump of a tree nested more than 20 levels deep no node at depth
\* 20 or deeper is serialised in full, and the truncation sentinel stands in
\* place of the node at depth 20.
C12_TruncatedAtDepth20 ==
  (pc = "dumped" /\ subject.shape = "tree" /\ Len(heap) > MAX_DEPTH + 1) =>
    /\ \A i \in FullNodes : out[i].depth < MAX_DEPTH
    /\ \A i \in Sentinels : out[i].depth = MAX_DEPTH

\* C13: on every node graph, with a cycle through child pointers or through
\* `next` or without a cycle, the dump comes to its end.
C13_DumpTerminates == <>(pc = "dumped")

\* C14: when the selector of a switch equals the begin value of one of its
\* cases, the switch body is executed: main returns the 7 the body assigns.
C14_SwitchBodyRunsOnMatch ==
  (pc = "halted" /\ subject.uses = "switch hit") => vstack = <<subject.expect>>

\* C15: in the code of && and ||, the right operand runs only when the left
\* one does not decide the result, at most once, and the value is 0 or 1:
\* main returns 10 * (the C value of the expression) + (how often the right
\* operand ran, 1 exactly when the left operand left the result open).
C15_ShortCircuit ==
  subject.uses = "short-circuit" =>
    /\ pc \notin {"fatal", "trapped"}
    /\ steps < MaxSteps
    /\ pc = "halted" => vstack = <<subject.expect>>

\* C15 witness: 0 && (n = n + 1, B) has run to the end: the value is 0 and
\* the right operand was skipped, so main returned 0.
C15_Witness ==
  /\ pc = "halted" /\ subject.name = "ND_LOGAND" /\ subject.expect = 0
  /\ vstack = <<0>>

\* The node goes to the binary fallback at the end of gen_expr.
IsBinaryFallback(nd) == nd.kind \in IntBinKinds

\* C16: the operator the binary fallback emits has the type prefix of the
\* values its two operands left on the stack: the validator meets no operand
\* of another type than the operator takes.  A comparison of two floats is an
\* f32 comparison.
C16_OperatorMatchesOperands ==
  (Lowering /\ IsExpr /\ IsBinaryFallback(subject.node)) => (verr = "" /\ trace = <<>>)

\* (memory (export "memory") 2): two pages of 64 KiB.
MemoryBytes == 2 * 65536

\* C17: the initial value of $__sp is above the end of the global data area
\* and not beyond the end of the declared memory.
C17_SpInsideMemory ==
  pc \in {"done1", "done2"} =>
    /\ InitialSp(out) > assign_global_offsets(prog).data_size
    /\ InitialSp(out) <= MemoryBytes

\* The byte ranges [offset, offset + ty.size) of two variables meet.
Overlap(a, b) ==
  a.offset < b.offset + b.ty[1].size /\ b.offset < a.offset + a.ty[1].size

\* Every variable of the list lies in [0, size) and no two of them meet.
DisjointWithin(list, size) ==
  /\ \A i \in 1..Len(list) :
        list[i].offset >= 0 /\ list[i].offset + list[i].ty[1].size <= size
  /\ \A i, j \in 1..Len(list) : i # j => ~Overlap(list[i], list[j])

\* C18: after the layout pass every stack_size is a multiple of 16, the
\* locals and parameters of a function lie inside [0, stack_size) without
\* overlap, and the globals lie inside [0, globals_size) without overlap.
C18_RangesDisjoint ==
  pc # "start" =>
    /\ DisjointWithin(GlobalVars(prog), assign_global_offsets(prog).data_size)
    /\ \A i \in 1..Len(prog) :
         prog[i].is_function =>
           /\ prog[i].stack_size % 16 = 0
           /\ DisjointWithin(prog[i].locals, prog[i].stack_size)

\* C18 witness: a laid-out program with two globals and a function with a
\* parameter and another local, the second of each placed right behind the
\* first without padding.
C18_Witness ==
  /\ pc = "done1"
  /\ Len(GlobalVars(prog)) >= 2
  /\ GlobalVars(prog)[2].offset = GlobalVars(prog)[1].ty[1].size
  /\ \E i \in 1..Len(prog) :
        /\ prog[i].is_function /\ Len(prog[i].locals) >= 2 /\ Len(params(prog[i])) >= 1
        /\ prog[i].locals[2].offset = prog[i].locals[1].ty[1].size
        /\ prog[i].stack_size > 0

====
